---- MODULE Spec2Model ----
(***************************************************************************)
(* csv-report-calc: the incremental two-heap median calculator             *)
(* (median.hpp), the per-file cursor and the k-way merge of csv_reader     *)
(* (reader.hpp), the thread pool that initialises the cursors (pool.hpp),  *)
(* the result_writer (writer.hpp) and the callback and exit status of      *)
(* main() (main.cpp).                                                      *)
(*                                                                         *)
(* Numbers.  A double d is represented by the integer 2*d (operator D), so *)
(* that the average of two integer-valued prices is exact, as it is in     *)
(* IEEE arithmetic for the small values used here.  receive_ts is a        *)
(* natural number.                                                         *)
(***************************************************************************)
EXTENDS Integers, Sequences, FiniteSets, TLC

VARIABLES
    \* ---- the calculator and its caller
    calc,        \* the calculator object: _lower, _upper, _last_median, _changed
    added,       \* history: the values passed to add(), in call order
    prev_median, \* history: what median() returned just before the last add()
    changed_log, \* history: is_changed() after each add()
    obs,         \* the values the const getters returned to the last caller
    \* ---- the input of csv_reader::process
    dir_kind,    \* what input_dir_ is: "missing", "notdir", "unreadable" or "dir"
    entries,     \* the directory: path |-> entry, paths numbered in sorted order
    masks,       \* masks_
    \* ---- csv_reader::process and the pool
    pc,          \* where process() is
    paths,       \* the local paths
    i,           \* the index of the running for loop
    tasks,       \* thread_pool::_tasks
    workers,     \* per worker thread: where it is in worker_loop and its task
    futures,     \* per submitted job: the shared state of its future
    cursors,     \* the local cursors
    heap,        \* the local heap
    total,       \* the local total
    ret,         \* the error code process() returned
    delivered,   \* history: the records passed to on_record_, in call order
    submitted,   \* history: the number of jobs given to thread_pool::submit
    \* ---- main() and the result_writer
    g_shutdown,  \* the flag g_shutdown, 0 or 1
    writer,      \* the result_writer: _file (open, fail, lines), _written_count
    written,     \* the local written of main()
    exit_code,   \* what main() returned: "none" while it runs
    signalled,   \* history: a signal handler has run
    observed,    \* history: on_record has found g_shutdown set
    write_failed,\* history: a call of result_writer::write has returned an error
    \* ---- one file_cursor driven by an arbitrary caller
    file,        \* the file the cursor reads
    cur,         \* the file_cursor object
    seen,        \* history: per advance() that returned true, line and record
    \* ---- one thread_pool driven by a client thread
    pool,        \* the thread_pool: _tasks, _stop, and where each worker is
    jobs,        \* per job the client will submit: it returns or it throws
    client,      \* where the client thread is
    pfutures,    \* per submitted job: the shared state of its future
    counter,     \* the counter the jobs increment
    runs,        \* history: per submitted job, the workers that executed it
    got          \* history: per submitted job, what get() gave the client

calcVars == <<calc, added, prev_median, changed_log, obs>>

inputVars == <<dir_kind, entries, masks>>

readerVars == <<pc, paths, i, tasks, workers, futures, cursors, heap, total, ret,
                delivered, submitted>>

mainVars == <<g_shutdown, writer, written, exit_code, signalled, observed,
              write_failed>>

cursorVars == <<file, cur, seen>>

poolVars == <<pool, jobs, client, pfutures, counter, runs, got>>

vars == <<calc, added, prev_median, changed_log, obs, dir_kind, entries, masks,
          pc, paths, i, tasks, workers, futures, cursors, heap, total, ret,
          delivered, submitted, g_shutdown, writer, written, exit_code,
          signalled, observed, write_failed, file, cur, seen,
          pool, jobs, client, pfutures, counter, runs, got>>

\* ------------------------------------------------------------------------
\* Bounds of the model
\* ------------------------------------------------------------------------

\* number of add() calls explored on one calculator
MaxAdds == 6

\* number of entries of the input directory
MaxFiles == 2

\* number of data lines of all the files of the input directory together
MaxRows == 3

\* number of worker threads of the pool
MaxWorkers == 2

\* the double d as the model represents it
D(d) == 2 * d

\* the prices fed to add(): -1.0, 0.0, 5.0 and 10.0
Prices == {D(0 - 1), D(0), D(5), D(10)}

\* ------------------------------------------------------------------------
\* std::priority_queue: a multiset with access to its top.  A queue is kept
\* as the sequence of its elements with the top first.
\* ------------------------------------------------------------------------

RECURSIVE PushMax(_, _)
\* std::priority_queue<double>::push (the maximum is on top)
PushMax(h, v) ==
    IF h = <<>> \/ v >= Head(h) THEN <<v>> \o h
    ELSE <<Head(h)>> \o PushMax(Tail(h), v)

RECURSIVE PushMin(_, _)
\* std::priority_queue<double, ..., std::greater<double>>::push (the minimum is on top)
PushMin(h, v) ==
    IF h = <<>> \/ v <= Head(h) THEN <<v>> \o h
    ELSE <<Head(h)>> \o PushMin(Tail(h), v)

\* ------------------------------------------------------------------------
\* calculator (median.hpp)
\* ------------------------------------------------------------------------

\* calculator() = default, with the member initialisers
NewCalculator ==
    [lower |-> <<>>, upper |-> <<>>, last_median |-> D(0), changed |-> FALSE]

\* add() that routes every value into _lower
Route_always_lower(c, price) == [c EXCEPT !.lower = PushMax(@, price)]

\* add(): the routing of the value into one of the two heaps
Route(c, price) ==
    IF c.lower = <<>> \/ price <= Head(c.lower)
    THEN [c EXCEPT !.lower = PushMax(@, price)]
    ELSE [c EXCEPT !.upper = PushMin(@, price)]

\* balance() without its first branch
balance_upper_only(c) ==
    IF Len(c.upper) > Len(c.lower)
    THEN [c EXCEPT !.lower = PushMax(@, Head(c.upper)), !.upper = Tail(@)]
    ELSE c

\* balance() without its pop of _lower: the moved element is copied, not moved
balance_copy(c) ==
    IF Len(c.lower) > Len(c.upper) + 1
    THEN [c EXCEPT !.upper = PushMin(@, Head(c.lower))]
    ELSE IF Len(c.upper) > Len(c.lower)
    THEN [c EXCEPT !.lower = PushMax(@, Head(c.upper)), !.upper = Tail(@)]
    ELSE c

\* balance() without its second branch
balance_lower_only(c) ==
    IF Len(c.lower) > Len(c.upper) + 1
    THEN [c EXCEPT !.upper = PushMin(@, Head(c.lower)), !.lower = Tail(@)]
    ELSE c

\* balance()
balance(c) ==
    IF Len(c.lower) > Len(c.upper) + 1
    THEN [c EXCEPT !.upper = PushMin(@, Head(c.lower)), !.lower = Tail(@)]
    ELSE IF Len(c.upper) > Len(c.lower)
    THEN [c EXCEPT !.lower = PushMax(@, Head(c.upper)), !.upper = Tail(@)]
    ELSE c

\* compute_median() without the averaging of the even case
compute_median_lower(c) == Head(c.lower)

\* compute_median(); only called with a non-empty _lower
compute_median(c) ==
    IF Len(c.lower) = Len(c.upper)
    THEN (Head(c.lower) + Head(c.upper)) \div 2
    ELSE Head(c.lower)

\* add() with _last_median assigned before the comparison
add_assign_first(c, price) ==
    LET b == balance(Route(c, price))
        new_median == compute_median(b)
    IN  [b EXCEPT !.changed = (new_median # new_median),
                  !.last_median = new_median]

\* add()
add(c, price) ==
    LET b == balance(Route(c, price))
        new_median == compute_median(b)
    IN  [b EXCEPT !.changed = (new_median # c.last_median),
                  !.last_median = new_median]

\* median()
median(c) == c.last_median

\* is_changed()
is_changed(c) == c.changed

\* count()
count(c) == Len(c.lower) + Len(c.upper)

\* has_values() looking at the other heap
has_values_upper(c) == c.upper # <<>>

\* has_values()
has_values(c) == c.lower # <<>>

\* ------------------------------------------------------------------------
\* Text.  A line is the sequence of its ';'-separated fields (at least one;
\* the empty line is the line of one empty field) and a field is the
\* sequence of its characters.  A header line is the sequence of its column
\* names.
\* ------------------------------------------------------------------------

DigitChars == <<"0", "1", "2", "3", "4", "5", "6", "7", "8", "9">>

IsDigit(ch) == \E k \in 1..Len(DigitChars) : DigitChars[k] = ch

DigitValue(ch) == (CHOOSE k \in 1..Len(DigitChars) : DigitChars[k] = ch) - 1

RECURSIVE DigitPrefix(_)
\* the longest prefix of decimal digits of a character sequence
DigitPrefix(f) ==
    IF f = <<>> \/ ~IsDigit(Head(f)) THEN <<>>
    ELSE <<Head(f)>> \o DigitPrefix(Tail(f))

RECURSIVE Decimal(_)
\* the number a sequence of decimal digits denotes
Decimal(ds) ==
    IF ds = <<>> THEN 0
    ELSE 10 * Decimal(SubSeq(ds, 1, Len(ds) - 1)) + DigitValue(ds[Len(ds)])

RECURSIVE Pow10(_)
Pow10(n) == IF n = 0 THEN 1 ELSE 10 * Pow10(n - 1)

\* std::from_chars(first, last, std::uint64_t&): the longest prefix that is
\* a decimal number is converted, with no sign and no leading space; without
\* a leading digit it fails and leaves the value alone.  What follows the
\* number is not looked at.  (The fields of the model are short, so a number
\* is never out of the range of 64 bits.)
from_chars_u64(f) ==
    LET ds == DigitPrefix(f)
    IN  IF ds = <<>> THEN [ok |-> FALSE, value |-> 0]
        ELSE [ok |-> TRUE, value |-> Decimal(ds)]

\* std::from_chars(first, last, double&): the longest prefix of the form
\* [-]digits[.digits] with at least one digit is converted.  (The model's
\* fields hold no exponent, "inf" or "nan", and their fractions are exact
\* halves.)  The value is in the representation D.
from_chars_double(f) ==
    LET neg == f # <<>> /\ Head(f) = "-"
        body == IF neg THEN Tail(f) ELSE f
        int == DigitPrefix(body)
        rest == SubSeq(body, Len(int) + 1, Len(body))
        frac == IF rest # <<>> /\ Head(rest) = "." THEN DigitPrefix(Tail(rest))
                ELSE <<>>
        mag == D(Decimal(int)) + (D(Decimal(frac)) \div Pow10(Len(frac)))
    IN  IF int = <<>> /\ frac = <<>> THEN [ok |-> FALSE, value |-> 0]
        ELSE [ok |-> TRUE, value |-> IF neg THEN 0 - mag ELSE mag]

\* ------------------------------------------------------------------------
\* file_cursor (reader.hpp).  The position of _file is pos, the number of
\* data lines read so far; rows are the data lines of the file.
\* ------------------------------------------------------------------------

\* find_column()
find_column(header_, col_) ==
    IF \E k \in 1..Len(header_) : header_[k] = col_
    THEN (CHOOSE k \in 1..Len(header_) :
              /\ header_[k] = col_
              /\ \A j \in 1..(k - 1) : header_[j] # col_) - 1
    ELSE 0 - 1

\* the string_view parse_line() cuts out for column idx: empty when the
\* line has too few fields
FieldAt(line_, idx) ==
    IF idx >= 0 /\ idx + 1 <= Len(line_) THEN line_[idx + 1] ELSE <<>>

\* parse_line() that takes a line whose price is no number
parse_line_lenient(c, line_) ==
    LET ts_sv == FieldAt(line_, c.ts_col)
        price_sv == FieldAt(line_, c.price_col)
        ts == from_chars_u64(ts_sv)
        price == from_chars_double(price_sv)
    IN  IF ts_sv = <<>> \/ price_sv = <<>> THEN [cursor |-> c, ok |-> FALSE]
        ELSE IF ~ts.ok THEN [cursor |-> c, ok |-> FALSE]
        ELSE IF ~price.ok
        THEN [cursor |-> [c EXCEPT !.current.receive_ts = ts.value], ok |-> TRUE]
        ELSE [cursor |-> [c EXCEPT !.current = [receive_ts |-> ts.value,
                                                price |-> price.value]],
              ok |-> TRUE]

\* parse_line(): the cursor after the call and what the call returned
parse_line(c, line_) ==
    LET ts_sv == FieldAt(line_, c.ts_col)
        price_sv == FieldAt(line_, c.price_col)
        ts == from_chars_u64(ts_sv)
        price == from_chars_double(price_sv)
    IN  IF ts_sv = <<>> \/ price_sv = <<>> THEN [cursor |-> c, ok |-> FALSE]
        ELSE IF ~ts.ok THEN [cursor |-> c, ok |-> FALSE]
        ELSE IF ~price.ok
        THEN [cursor |-> [c EXCEPT !.current.receive_ts = ts.value], ok |-> FALSE]
        ELSE [cursor |-> [c EXCEPT !.current = [receive_ts |-> ts.value,
                                                price |-> price.value]],
              ok |-> TRUE]

\* the empty line
EmptyLine == << <<>> >>

RECURSIVE advance_stop(_, _)
\* advance() that gives up at the first line parse_line() refuses
advance_stop(c, rows) ==
    IF c.pos >= Len(rows) THEN [cursor |-> [c EXCEPT !.valid = FALSE], ok |-> FALSE]
    ELSE LET line_ == rows[c.pos + 1]
             c1 == [c EXCEPT !.pos = @ + 1, !.line_num = @ + 1]
             r == parse_line(c1, line_)
         IN  IF line_ = EmptyLine THEN advance_stop(c1, rows)
             ELSE IF r.ok THEN r
             ELSE [cursor |-> [r.cursor EXCEPT !.valid = FALSE], ok |-> FALSE]

RECURSIVE advance_keeps_valid(_, _)
\* advance() without its assignment _valid = false at the end of the file
advance_keeps_valid(c, rows) ==
    IF c.pos >= Len(rows) THEN [cursor |-> c, ok |-> FALSE]
    ELSE LET line_ == rows[c.pos + 1]
             c1 == [c EXCEPT !.pos = @ + 1, !.line_num = @ + 1]
             r == parse_line(c1, line_)
         IN  IF line_ = EmptyLine THEN advance_keeps_valid(c1, rows)
             ELSE IF r.ok THEN r
             ELSE advance_keeps_valid(r.cursor, rows)

RECURSIVE advance(_, _)
\* advance() on a cursor whose file has the data lines rows: the cursor
\* after the call and what the call returned
advance(c, rows) ==
    IF c.pos >= Len(rows) THEN [cursor |-> [c EXCEPT !.valid = FALSE], ok |-> FALSE]
    ELSE LET line_ == rows[c.pos + 1]
             c1 == [c EXCEPT !.pos = @ + 1, !.line_num = @ + 1]
             r == parse_line(c1, line_)
         IN  IF line_ = EmptyLine THEN advance(c1, rows)
             ELSE IF r.ok THEN r
             ELSE advance(r.cursor, rows)

\* the members of a file_cursor before the constructor's body runs
FreshCursor(path_) ==
    [path |-> path_, pos |-> 0,
     current |-> [receive_ts |-> 0, price |-> D(0)],
     ts_col |-> 0 - 1, price_col |-> 0 - 1, line_num |-> 0, valid |-> FALSE]

\* file_cursor::file_cursor() that is valid once the header has the columns
file_cursor_header_valid(path_, e) ==
    LET c0 == FreshCursor(path_)
        c1 == [c0 EXCEPT !.ts_col = find_column(e.header, "receive_ts"),
                         !.price_col = find_column(e.header, "price")]
        r == advance(c1, e.rows)
    IN  IF ~e.openable THEN c0
        ELSE IF e.empty THEN c0
        ELSE IF c1.ts_col < 0 \/ c1.price_col < 0 THEN c1
        ELSE [r.cursor EXCEPT !.valid = TRUE]

\* file_cursor::file_cursor() on the directory entry e at path_
file_cursor(path_, e) ==
    LET c0 == FreshCursor(path_)
        c1 == [c0 EXCEPT !.ts_col = find_column(e.header, "receive_ts"),
                         !.price_col = find_column(e.header, "price")]
        r == advance(c1, e.rows)
    IN  IF ~e.openable THEN c0
        ELSE IF e.empty THEN c0
        ELSE IF c1.ts_col < 0 \/ c1.price_col < 0 THEN c1
        ELSE [r.cursor EXCEPT !.valid = r.ok]

\* is_valid()
is_valid(c) == c.valid

\* current()
current(c) == c.current

\* ------------------------------------------------------------------------
\* csv_reader (reader.hpp)
\* ------------------------------------------------------------------------

\* the characters of ".csv" and of ".txt"
DotCsv == <<".", "c", "s", "v">>

DotTxt == <<".", "t", "x", "t">>

\* the position of the rightmost period of a file name, 0 without one
LastDot(name) ==
    IF \E k \in 1..Len(name) : name[k] = "."
    THEN CHOOSE k \in 1..Len(name) :
             /\ name[k] = "."
             /\ \A j \in (k + 1)..Len(name) : name[j] # "."
    ELSE 0

\* std::filesystem::path::extension() of a file name: from the rightmost
\* period on; none when that period is the first character
path_extension(name) ==
    IF LastDot(name) <= 1 THEN <<>>
    ELSE SubSeq(name, LastDot(name), Len(name))

\* std::filesystem::path::stem() of a file name: the name without its
\* extension
path_stem(name) == SubSeq(name, 1, Len(name) - Len(path_extension(name)))

\* std::string::find(mask) != npos
Contains(stem, mask) ==
    \E a \in 0..(Len(stem) - Len(mask)) : SubSeq(stem, a + 1, a + Len(mask)) = mask

\* matches_masks() that asks for every mask to be found
matches_masks_all(stem, masks_) ==
    \/ masks_ = <<>>
    \/ \A k \in 1..Len(masks_) : Contains(stem, masks_[k])

\* matches_masks()
matches_masks(stem, masks_) ==
    \/ masks_ = <<>>
    \/ \E k \in 1..Len(masks_) : Contains(stem, masks_[k])

RECURSIVE SortedSeq(_)
\* std::ranges::sort(paths): paths are numbered in their sorted order
SortedSeq(S) ==
    IF S = {} THEN <<>>
    ELSE LET m == CHOOSE x \in S : \A y \in S : x <= y
         IN  <<m>> \o SortedSeq(S \ {m})

\* scan_directory() without the checks of exists() and is_directory()
scan_directory_unchecked(kind, dir, masks_) ==
    IF kind = "unreadable"
    THEN [paths |-> <<>>, err |-> "filesystem_error"]
    ELSE [paths |-> SortedSeq({p \in DOMAIN dir :
                                  /\ dir[p].regular
                                  /\ dir[p].ext = DotCsv
                                  /\ matches_masks(dir[p].stem, masks_)}),
          err |-> ""]

\* scan_directory(): the paths and the error code
scan_directory(kind, dir, masks_) ==
    IF kind = "missing"
    THEN [paths |-> <<>>, err |-> "no_such_file_or_directory"]
    ELSE IF kind = "notdir"
    THEN [paths |-> <<>>, err |-> "not_a_directory"]
    ELSE IF kind = "unreadable"
    THEN [paths |-> <<>>, err |-> "filesystem_error"]
    ELSE [paths |-> SortedSeq({p \in DOMAIN dir :
                                  /\ dir[p].regular
                                  /\ dir[p].ext = DotCsv
                                  /\ matches_masks(dir[p].stem, masks_)}),
          err |-> ""]

\* the default std::less<heap_entry>: the largest pair is on top
EntryBefore_less(a, b) == a[1] > b[1] \/ (a[1] = b[1] /\ a[2] > b[2])

\* a comparison of the timestamps alone, with which an entry goes behind
\* the entries of its timestamp that are in the heap already
EntryBefore_ts_only(a, b) == a[1] < b[1]

\* std::greater<heap_entry> on pairs (ts, idx): a is before b in the heap
EntryBefore(a, b) == a[1] < b[1] \/ (a[1] = b[1] /\ a[2] < b[2])

RECURSIVE HeapEmplace(_, _)
\* heap.emplace(ts, idx); the heap is kept with its top first
HeapEmplace(h, e) ==
    IF h = <<>> \/ EntryBefore(e, Head(h)) THEN <<e>> \o h
    ELSE <<Head(h)>> \o HeapEmplace(Tail(h), e)

\* ------------------------------------------------------------------------
\* The inputs of the model
\* ------------------------------------------------------------------------

\* data lines under the header receive_ts;price: two good ones, and one
\* whose receive_ts is a number and whose price is none
LineCat ==
    { << <<"1">>, <<"4">> >>,
      << <<"2">>, <<"6">> >>,
      << <<"1">>, <<"x">> >> }

GoodHeader == <<"receive_ts", "price">>

RECURSIVE RowSeqs(_)
\* the sequences of k lines of LineCat
RowSeqs(k) ==
    IF k = 0 THEN {<<>>}
    ELSE {Append(rs, l) : rs \in RowSeqs(k - 1), l \in LineCat}

\* a regular .csv file with its text
CsvFile(openable_, empty_, header_, rows_) ==
    [regular |-> TRUE, ext |-> DotCsv, stem |-> <<>>, openable |-> openable_,
     empty |-> empty_, header |-> header_, rows |-> rows_]

\* files that are no source with columns: a file that cannot be opened, a
\* file of no lines, a file whose header has no price column
OtherEntries ==
    { CsvFile(FALSE, TRUE, <<>>, <<>>),
      CsvFile(TRUE, TRUE, <<>>, <<>>),
      CsvFile(TRUE, FALSE, <<"receive_ts", "cost">>, << << <<"1">>, <<"4">> >> >>) }

\* the entries with at most r data lines
EntryCat(r) ==
    {e \in OtherEntries : Len(e.rows) <= r}
        \cup {CsvFile(TRUE, FALSE, GoodHeader, rows) :
                 rows \in UNION {RowSeqs(k) : k \in 0..r}}

RECURSIVE Directories(_, _)
\* the directories of n entries with at most r data lines together
Directories(n, r) ==
    IF n = 0 THEN {<<>>}
    ELSE UNION { {<<e>> \o d : d \in Directories(n - 1, r - Len(e.rows))} :
                 e \in EntryCat(r) }

\* the stem of the file name at path p
StemOf(p) == IF p % 2 = 1 THEN <<"t", "r">> ELSE <<"l", "v">>

\* a directory with the file names put on its entries
Named(d) == [p \in 1..Len(d) |-> [d[p] EXCEPT !.stem = StemOf(p)]]

\* the mask lists: one mask that the odd paths match, two masks of which
\* the second matches the even paths, one mask that no path matches
MaskChoices == { << <<"t">> >>, << <<"x">>, <<"v">> >>, << <<"r", "t">> >> }

\* entries for the discovery: a subdirectory named like a .csv file, a text
\* file, a .csv file of one good line
DiscoveryEntries ==
    { [regular |-> FALSE, ext |-> DotCsv, stem |-> <<>>, openable |-> FALSE,
       empty |-> TRUE, header |-> <<>>, rows |-> <<>>],
      [regular |-> TRUE, ext |-> DotTxt, stem |-> <<>>, openable |-> TRUE,
       empty |-> FALSE, header |-> <<"some text">>, rows |-> <<>>],
      CsvFile(TRUE, FALSE, GoodHeader, << << <<"1">>, <<"4">> >> >>) }

\* the inputs of process(): an input_dir_ that is no readable directory; a
\* directory of .csv files of any text, read without masks; a directory of
\* entries of any kind, read without and with masks
Inputs ==
    {[kind |-> k, dir |-> <<>>, masks |-> <<>>] :
        k \in {"missing", "notdir", "unreadable"}}
    \cup {[kind |-> "dir", dir |-> Named(d), masks |-> <<>>] :
             d \in UNION {Directories(n, MaxRows) : n \in 0..MaxFiles}}
    \cup {[kind |-> "dir", dir |-> Named(d), masks |-> m] :
             d \in UNION {[1..n -> DiscoveryEntries] : n \in 1..MaxFiles},
             m \in MaskChoices \cup {<<>>}}

\* ------------------------------------------------------------------------
\* The calculator driven by an arbitrary caller
\* ------------------------------------------------------------------------

NoObs == [median |-> D(0), is_changed |-> FALSE, count |-> 0, has_values |-> FALSE]

InitCalcVars ==
    /\ calc = NewCalculator
    /\ added = <<>>
    /\ prev_median = D(0)
    /\ changed_log = <<>>
    /\ obs = NoObs

\* process() before its first statement, with a pool of n waiting workers
InitReaderVars(n) ==
    /\ pc = "scan"
    /\ paths = <<>>
    /\ i = 0
    /\ tasks = <<>>
    /\ workers = [w \in 1..n |-> [state |-> "wait", task |-> 0]]
    /\ futures = <<>>
    /\ cursors = <<>>
    /\ heap = <<>>
    /\ total = 0
    /\ ret = "none"
    /\ delivered = <<>>
    /\ submitted = 0

\* a result_writer as its member initialisers leave it
NewWriter == [open |-> FALSE, fail |-> FALSE, lines |-> <<>>, written_count |-> 0]

\* main() before its first statement
InitMainVars ==
    /\ g_shutdown = 0
    /\ writer = NewWriter
    /\ written = 0
    /\ exit_code = "none"
    /\ signalled = FALSE
    /\ observed = FALSE
    /\ write_failed = FALSE

\* no cursor has been constructed
InitCursorVars ==
    /\ file = CsvFile(FALSE, TRUE, <<>>, <<>>)
    /\ cur = FreshCursor(0)
    /\ seen = <<>>

\* a thread_pool of n workers whose threads have not run yet
NewPool(n) ==
    [tasks |-> <<>>, stop |-> FALSE,
     workers |-> [w \in 1..n |-> [state |-> "lock", task |-> 0]]]

\* a pool no client uses
InitPoolVars ==
    /\ pool = NewPool(1)
    /\ jobs = <<>>
    /\ client = [pc |-> "idle", join |-> 1, notifying |-> 0]
    /\ pfutures = <<>>
    /\ counter = 0
    /\ runs = <<>>
    /\ got = <<>>

InitCalc ==
    /\ InitCalcVars
    /\ dir_kind = "missing" /\ entries = <<>> /\ masks = <<>>
    /\ InitReaderVars(1)
    /\ InitMainVars
    /\ InitCursorVars
    /\ InitPoolVars

\* a caller calls add(price)
Add(price) ==
    /\ Len(added) < MaxAdds
    /\ calc' = add(calc, price)
    /\ added' = Append(added, price)
    /\ prev_median' = median(calc)
    /\ changed_log' = Append(changed_log, is_changed(add(calc, price)))
    /\ obs' = obs
    /\ UNCHANGED <<inputVars, readerVars, mainVars, cursorVars, poolVars>>

\* a caller calls the four const getters
Query ==
    /\ obs' = [median |-> median(calc), is_changed |-> is_changed(calc),
               count |-> count(calc), has_values |-> has_values(calc)]
    /\ UNCHANGED <<calc, added, prev_median, changed_log>>
    /\ UNCHANGED <<inputVars, readerVars, mainVars, cursorVars, poolVars>>

NextCalc ==
    \/ \E price \in Prices : Add(price)
    \/ Query

SpecCalc == InitCalc /\ [][NextCalc]_vars

\* ------------------------------------------------------------------------
\* csv_reader::process() with the pool's workers
\* ------------------------------------------------------------------------

InitReader ==
    /\ InitCalcVars
    /\ \E in \in Inputs :
          dir_kind = in.kind /\ entries = in.dir /\ masks = in.masks
    /\ \E n \in 1..MaxWorkers : InitReaderVars(n)
    /\ InitMainVars
    /\ InitCursorVars
    /\ InitPoolVars

\* process(): scan_directory() and the two early returns
Scan ==
    /\ pc = "scan"
    /\ LET r == scan_directory(dir_kind, entries, masks)
       IN  IF r.err # ""
           THEN ret' = r.err /\ pc' = "done" /\ UNCHANGED <<paths, i>>
           ELSE IF r.paths = <<>>
           THEN ret' = "" /\ pc' = "done" /\ UNCHANGED <<paths, i>>
           ELSE paths' = r.paths /\ pc' = "submit" /\ i' = 1 /\ ret' = ret
    /\ UNCHANGED <<tasks, workers, futures, cursors, heap, total, delivered, submitted>>
    /\ UNCHANGED <<calcVars, inputVars, mainVars, cursorVars, poolVars>>

\* process(): one round of the loop over paths, thread_pool::submit() of the
\* job that constructs the cursor of paths[i]
Submit ==
    /\ pc = "submit"
    /\ tasks' = Append(tasks, i)
    /\ futures' = Append(futures, [ready |-> FALSE, value |-> FreshCursor(0)])
    /\ submitted' = submitted + 1
    /\ IF i = Len(paths) THEN pc' = "collect" /\ i' = 1
       ELSE pc' = pc /\ i' = i + 1
    /\ UNCHANGED <<paths, workers, cursors, heap, total, ret, delivered>>
    /\ UNCHANGED <<calcVars, inputVars, mainVars, cursorVars, poolVars>>

\* worker_loop(): the wait on _cv ends with a task in the queue, which the
\* worker takes under the mutex
WorkerTake(w) ==
    /\ workers[w].state = "wait"
    /\ tasks # <<>>
    /\ workers' = [workers EXCEPT ![w] = [state |-> "run", task |-> Head(tasks)]]
    /\ tasks' = Tail(tasks)
    /\ UNCHANGED <<pc, paths, i, futures, cursors, heap, total, ret, delivered, submitted>>
    /\ UNCHANGED <<calcVars, inputVars, mainVars, cursorVars, poolVars>>

\* worker_loop(): task(), which constructs the cursor and makes the future ready
WorkerRun(w) ==
    /\ workers[w].state = "run"
    /\ LET j == workers[w].task
       IN  futures' = [futures EXCEPT ![j] =
                          [ready |-> TRUE,
                           value |-> file_cursor(paths[j], entries[paths[j]])]]
    /\ workers' = [workers EXCEPT ![w] = [state |-> "wait", task |-> 0]]
    /\ UNCHANGED <<pc, paths, i, tasks, cursors, heap, total, ret, delivered, submitted>>
    /\ UNCHANGED <<calcVars, inputVars, mainVars, cursorVars, poolVars>>

\* the loop over futures that returns an error at the first invalid cursor
Collect_abort ==
    /\ pc = "collect"
    /\ futures[i].ready
    /\ IF ~is_valid(futures[i].value)
       THEN ret' = "io_error" /\ pc' = "done" /\ UNCHANGED <<cursors, i>>
       ELSE /\ cursors' = Append(cursors, futures[i].value)
            /\ ret' = ret
            /\ IF i = Len(futures) THEN pc' = "seed" /\ i' = 1
               ELSE pc' = pc /\ i' = i + 1
    /\ UNCHANGED <<paths, tasks, workers, futures, heap, total, delivered, submitted>>
    /\ UNCHANGED <<calcVars, inputVars, mainVars, cursorVars, poolVars>>

\* the loop over futures that takes the value of a future without waiting
\* for it
Collect_no_wait ==
    /\ pc = "collect"
    /\ cursors' = IF is_valid(futures[i].value) THEN Append(cursors, futures[i].value)
                  ELSE cursors
    /\ IF i = Len(futures) THEN pc' = "seed" /\ i' = 1
       ELSE pc' = pc /\ i' = i + 1
    /\ UNCHANGED <<paths, tasks, workers, futures, heap, total, ret, delivered, submitted>>
    /\ UNCHANGED <<calcVars, inputVars, mainVars, cursorVars, poolVars>>

\* a loop over futures that takes the futures as they become ready: the
\* first future that is ready changes places with the one whose turn it is
Collect_as_completed ==
    /\ pc = "collect"
    /\ \E j \in i..Len(futures) : futures[j].ready
    /\ LET j == CHOOSE k \in i..Len(futures) :
                    futures[k].ready /\ \A m \in (k + 1)..Len(futures) : ~futures[m].ready
       IN  /\ cursors' = IF is_valid(futures[j].value)
                         THEN Append(cursors, futures[j].value)
                         ELSE cursors
           /\ futures' = [futures EXCEPT ![i] = futures[j], ![j] = futures[i]]
    /\ IF i = Len(futures) THEN pc' = "seed" /\ i' = 1
       ELSE pc' = pc /\ i' = i + 1
    /\ UNCHANGED <<paths, tasks, workers, heap, total, ret, delivered, submitted>>
    /\ UNCHANGED <<calcVars, inputVars, mainVars, cursorVars, poolVars>>

\* process(): one round of the loop over futures, f.get() and the keeping
\* of a valid cursor
Collect ==
    /\ pc = "collect"
    /\ futures[i].ready
    /\ cursors' = IF is_valid(futures[i].value) THEN Append(cursors, futures[i].value)
                  ELSE cursors
    /\ IF i = Len(futures) THEN pc' = "seed" /\ i' = 1
       ELSE pc' = pc /\ i' = i + 1
    /\ UNCHANGED <<paths, tasks, workers, futures, heap, total, ret, delivered, submitted>>
    /\ UNCHANGED <<calcVars, inputVars, mainVars, cursorVars, poolVars>>

RECURSIVE SeedHeap_twice(_, _)
\* a seeding loop that emplaces the entry of every cursor twice
SeedHeap_twice(cs, n) ==
    IF n = 0 THEN <<>>
    ELSE HeapEmplace(HeapEmplace(SeedHeap_twice(cs, n - 1),
                                 <<current(cs[n]).receive_ts, n>>),
                     <<current(cs[n]).receive_ts, n>>)

RECURSIVE SeedHeap(_, _)
\* the loop that emplaces (current().receive_ts, idx) of the cursors up to n
SeedHeap(cs, n) ==
    IF n = 0 THEN <<>>
    ELSE HeapEmplace(SeedHeap(cs, n - 1), <<current(cs[n]).receive_ts, n>>)

\* process(): the return without cursors, or the seeding of the heap
Seed ==
    /\ pc = "seed"
    /\ IF cursors = <<>>
       THEN ret' = "" /\ pc' = "done" /\ UNCHANGED <<heap, total>>
       ELSE heap' = SeedHeap(cursors, Len(cursors)) /\ total' = 0 /\ pc' = "merge"
            /\ ret' = ret
    /\ UNCHANGED <<paths, i, tasks, workers, futures, cursors, delivered, submitted>>
    /\ UNCHANGED <<calcVars, inputVars, mainVars, cursorVars, poolVars>>

\* the record on_record_ is called with in a round of the merge loop
TopRecord == current(cursors[Head(heap)[2]])

\* process(): one round of the merge loop, which pops the top, calls
\* on_record_ with TopRecord, and advances the cursor of the top; what
\* on_record_ does is added by the caller's callback
MergeRound ==
    /\ pc = "merge"
    /\ heap # <<>>
    /\ LET idx == Head(heap)[2]
           r == advance(cursors[idx], entries[cursors[idx].path].rows)
       IN  /\ delivered' = Append(delivered, [rec |-> current(cursors[idx]),
                                              path |-> cursors[idx].path,
                                              line |-> cursors[idx].line_num])
           /\ total' = total + 1
           /\ cursors' = [cursors EXCEPT ![idx] = r.cursor]
           /\ heap' = IF r.ok
                      THEN HeapEmplace(Tail(heap), <<current(r.cursor).receive_ts, idx>>)
                      ELSE Tail(heap)
    /\ UNCHANGED <<pc, paths, i, tasks, workers, futures, ret, submitted>>
    /\ UNCHANGED <<inputVars, cursorVars, poolVars>>

\* a callback that only receives
Receive(rec) == UNCHANGED <<calcVars, mainVars>>

\* a round of the merge loop that advances the cursor before it passes the
\* record of the cursor to the callback
MergeStep_late ==
    /\ pc = "merge"
    /\ heap # <<>>
    /\ LET idx == Head(heap)[2]
           r == advance(cursors[idx], entries[cursors[idx].path].rows)
       IN  /\ delivered' = Append(delivered, [rec |-> current(r.cursor),
                                              path |-> r.cursor.path,
                                              line |-> r.cursor.line_num])
           /\ total' = total + 1
           /\ cursors' = [cursors EXCEPT ![idx] = r.cursor]
           /\ heap' = IF r.ok
                      THEN HeapEmplace(Tail(heap), <<current(r.cursor).receive_ts, idx>>)
                      ELSE Tail(heap)
    /\ UNCHANGED <<pc, paths, i, tasks, workers, futures, ret, submitted>>
    /\ UNCHANGED <<calcVars, inputVars, mainVars, cursorVars, poolVars>>

\* a round of the merge loop that emplaces the entry of the advanced cursor
\* with the timestamp of the record it has just delivered
MergeStep_stale ==
    /\ pc = "merge"
    /\ heap # <<>>
    /\ LET idx == Head(heap)[2]
           r == advance(cursors[idx], entries[cursors[idx].path].rows)
       IN  /\ delivered' = Append(delivered, [rec |-> current(cursors[idx]),
                                              path |-> cursors[idx].path,
                                              line |-> cursors[idx].line_num])
           /\ total' = total + 1
           /\ cursors' = [cursors EXCEPT ![idx] = r.cursor]
           /\ heap' = IF r.ok
                      THEN HeapEmplace(Tail(heap), <<current(cursors[idx]).receive_ts, idx>>)
                      ELSE Tail(heap)
    /\ UNCHANGED <<pc, paths, i, tasks, workers, futures, ret, submitted>>
    /\ UNCHANGED <<calcVars, inputVars, mainVars, cursorVars, poolVars>>

\* process(): one round of the merge loop with a callback that only receives
MergeStep == MergeRound /\ Receive(TopRecord)

\* a merge loop that does not end when the heap is empty
Finish_stay ==
    /\ pc = "merge"
    /\ heap = <<>>
    /\ ret' = ""
    /\ pc' = pc
    /\ UNCHANGED <<paths, i, tasks, workers, futures, cursors, heap, total, delivered, submitted>>
    /\ UNCHANGED <<calcVars, inputVars, mainVars, cursorVars, poolVars>>

\* process(): the heap is empty, the return of success
Finish ==
    /\ pc = "merge"
    /\ heap = <<>>
    /\ ret' = ""
    /\ pc' = "done"
    /\ UNCHANGED <<paths, i, tasks, workers, futures, cursors, heap, total, delivered, submitted>>
    /\ UNCHANGED <<calcVars, inputVars, mainVars, cursorVars, poolVars>>

NextReader ==
    \/ Scan
    \/ Submit
    \/ \E w \in DOMAIN workers : WorkerTake(w)
    \/ \E w \in DOMAIN workers : WorkerRun(w)
    \/ Collect
    \/ Seed
    \/ MergeStep
    \/ Finish

SpecReader == InitReader /\ [][NextReader]_vars

\* ------------------------------------------------------------------------
\* csv_reader::process() on a pool of one worker, for the merge loop
\* ------------------------------------------------------------------------

InitMerge ==
    /\ InitCalcVars
    /\ \E in \in Inputs :
          dir_kind = in.kind /\ entries = in.dir /\ masks = in.masks
    /\ InitReaderVars(1)
    /\ InitMainVars
    /\ InitCursorVars
    /\ InitPoolVars

SpecMerge == InitMerge /\ [][NextReader]_vars

\* a round of the merge loop seen by its counter: while (!heap.empty())
\* { ...; ++total; ... }.  Under NextReader the steps that count total up
\* are the steps of MergeStep, which is enabled whenever the heap of the
\* merge loop is not empty.
MergeCounts ==
    /\ pc = "merge"
    /\ heap # <<>>
    /\ total' = total + 1

\* process() runs on: the thread that called it is not stopped for ever
\* before a round of the merge loop or before the return
SpecMergeFair == SpecMerge /\ WF_total(MergeCounts) /\ WF_vars(Finish)

\* ------------------------------------------------------------------------
\* csv_reader::process() on directories of named entries, with masks
\* ------------------------------------------------------------------------

\* the first character of the name of the entry at path p, which makes the
\* numbering of the paths their sorted order
ScanLetter(p) == <<"a", "b", "c", "d">>[p]

\* what follows the first character: t.csv, T.csv, t.CSV, t.txt, t.csv.txt,
\* .t.csv, tcsv, .csv
ScanBodies ==
    { <<"t">> \o DotCsv,
      <<"T">> \o DotCsv,
      <<"t", ".", "C", "S", "V">>,
      <<"t">> \o DotTxt,
      <<"t">> \o DotCsv \o DotTxt,
      <<".", "t">> \o DotCsv,
      <<"t", "c", "s", "v">>,
      DotCsv }

\* the file names an entry at path p can have; the name .csv sorts first
ScanNames(p) ==
    {<<ScanLetter(p)>> \o b : b \in ScanBodies}
        \cup (IF p = 1 THEN {DotCsv} ELSE {})

\* a regular file of one good line with the name name_
ScanFile(name_) ==
    [regular |-> TRUE, ext |-> path_extension(name_), stem |-> path_stem(name_),
     openable |-> TRUE, empty |-> FALSE, header |-> GoodHeader,
     rows |-> << << <<"1">>, <<"4">> >> >>]

\* a subdirectory with the name name_
ScanSubdir(name_) ==
    [regular |-> FALSE, ext |-> path_extension(name_), stem |-> path_stem(name_),
     openable |-> FALSE, empty |-> TRUE, header |-> <<>>, rows |-> <<>>]

\* the entries at path p: a regular file of any name, a subdirectory t.csv
ScanEntries(p) ==
    {ScanFile(n) : n \in ScanNames(p)}
        \cup {ScanSubdir(<<ScanLetter(p), "t">> \o DotCsv)}

\* the directories of n entries
ScanDirs(n) ==
    {d \in [1..n -> UNION {ScanEntries(p) : p \in 1..n}] :
        \A p \in 1..n : d[p] \in ScanEntries(p)}

\* the mask lists: none, t, T, the two masks x and at, ta, the empty mask
ScanMasks ==
    { <<>>,
      << <<"t">> >>,
      << <<"T">> >>,
      << <<"x">>, <<"a", "t">> >>,
      << <<"t", "a">> >>,
      << <<>> >> }

\* process() with a pool of k_min_threads workers
InitScan ==
    /\ InitCalcVars
    /\ dir_kind = "dir"
    /\ entries \in UNION {ScanDirs(n) : n \in 0..MaxFiles}
    /\ masks \in ScanMasks
    /\ InitReaderVars(1)
    /\ InitMainVars
    /\ InitCursorVars
    /\ InitPoolVars

SpecScan == InitScan /\ [][NextReader]_vars

\* ------------------------------------------------------------------------
\* One file_cursor driven by an arbitrary caller
\* ------------------------------------------------------------------------

\* data lines of one, two and three fields: good ones, one with a price
\* that is no number, one with a receive_ts that is no number, one with a
\* receive_ts and one with a price that is a number followed by a letter,
\* one with an empty receive_ts, one with a single field, and the empty line
CursorLines ==
    { << <<"1">>, <<"4">> >>,
      << <<"3">>, <<"6">> >>,
      << <<"2">>, <<"9">>, <<"5">> >>,
      << <<"2">>, <<"x">> >>,
      << <<"x">>, <<"4">> >>,
      << <<"3", "x">>, <<"4">> >>,
      << <<"5">>, <<"4", "x">> >>,
      << <<>>, <<"4">> >>,
      << <<"7">> >>,
      EmptyLine }

\* header lines: the two columns, the two columns the other way round, a
\* column between the two, and one without receive_ts
CursorHeaders ==
    { GoodHeader,
      <<"price", "receive_ts">>,
      <<"receive_ts", "exchange_ts", "price">>,
      <<"timestamp", "price">> }

RECURSIVE CursorRows(_)
\* the sequences of k lines of CursorLines
CursorRows(k) ==
    IF k = 0 THEN {<<>>}
    ELSE {Append(rs, l) : rs \in CursorRows(k - 1), l \in CursorLines}

\* the files a cursor is constructed on
CursorFiles ==
    { CsvFile(FALSE, TRUE, <<>>, <<>>), CsvFile(TRUE, TRUE, <<>>, <<>>) }
    \cup {CsvFile(TRUE, FALSE, h, rows) :
             h \in CursorHeaders, rows \in UNION {CursorRows(k) : k \in 0..MaxRows}}

InitCursor ==
    /\ InitCalcVars
    /\ dir_kind = "missing" /\ entries = <<>> /\ masks = <<>>
    /\ InitReaderVars(1)
    /\ InitMainVars
    /\ file \in CursorFiles
    /\ cur = FreshCursor(0)
    /\ seen = <<>>
    /\ InitPoolVars

\* what a call of advance() that left the cursor c returned
Returned(c, ok_) == [ok |-> ok_, line |-> c.line_num, rec |-> current(c)]

\* file_cursor::file_cursor(path 1); the history gets the return of the
\* constructor's advance() when the constructor comes to call it
Construct ==
    /\ cur.path = 0
    /\ cur' = file_cursor(1, file)
    /\ seen' = IF file_cursor(1, file).ts_col >= 0 /\ file_cursor(1, file).price_col >= 0
               THEN <<Returned(file_cursor(1, file), is_valid(file_cursor(1, file)))>>
               ELSE <<>>
    /\ file' = file
    /\ UNCHANGED <<calcVars, inputVars, readerVars, mainVars, poolVars>>

\* the caller calls advance(), until a call has returned false
Advance ==
    /\ cur.path = 1
    /\ IF seen = <<>> THEN TRUE ELSE seen[Len(seen)].ok
    /\ cur' = advance(cur, file.rows).cursor
    /\ seen' = Append(seen, Returned(advance(cur, file.rows).cursor,
                                     advance(cur, file.rows).ok))
    /\ file' = file
    /\ UNCHANGED <<calcVars, inputVars, readerVars, mainVars, poolVars>>

\* how many times the caller calls advance() again after it returned false
MaxCallsAfterEnd == 2

\* the caller calls advance() on a cursor whose advance() has returned false
AdvanceAfterEnd ==
    /\ cur.path = 1
    /\ seen # <<>>
    /\ ~seen[Len(seen)].ok
    /\ Cardinality({n \in 1..Len(seen) : ~seen[n].ok}) <= MaxCallsAfterEnd
    /\ cur' = advance(cur, file.rows).cursor
    /\ seen' = Append(seen, Returned(advance(cur, file.rows).cursor,
                                     advance(cur, file.rows).ok))
    /\ file' = file
    /\ UNCHANGED <<calcVars, inputVars, readerVars, mainVars, poolVars>>

NextCursor ==
    \/ Construct
    \/ Advance
    \/ AdvanceAfterEnd

SpecCursor == InitCursor /\ [][NextCursor]_vars

\* ------------------------------------------------------------------------
\* A file_cursor driven by a caller, or process() with its cursors
\* ------------------------------------------------------------------------

InitExhaust == InitCursor \/ InitMerge

NextExhaust == NextCursor \/ NextReader

SpecExhaust == InitExhaust /\ [][NextExhaust]_vars

\* ------------------------------------------------------------------------
\* result_writer (writer.hpp)
\* ------------------------------------------------------------------------

\* the digit characters by value
DigitOf(k) == <<"0", "1", "2", "3", "4", "5", "6", "7", "8", "9">>[k + 1]

RECURSIVE to_chars(_)
\* std::format("{}", n) of an unsigned integer
to_chars(n) ==
    IF n < 10 THEN <<DigitOf(n)>>
    ELSE to_chars(n \div 10) \o <<DigitOf(n % 10)>>

\* std::format("{:.8f}", d) of a double that is a whole number of halves,
\* given in the representation D
format_fixed8(m) ==
    LET mag == IF m < 0 THEN 0 - m ELSE m
    IN  (IF m < 0 THEN <<"-">> ELSE <<>>)
            \o to_chars(mag \div 2) \o <<".">>
            \o (IF mag % 2 = 1 THEN <<"5">> ELSE <<"0">>)
            \o <<"0", "0", "0", "0", "0", "0", "0">>

\* std::format("{};{:.8f}\n", receive_ts_, price_median_), without the \n
format_line(receive_ts_, price_median_) ==
    to_chars(receive_ts_) \o <<";">> \o format_fixed8(price_median_)

\* k_header, without the \n
k_header == <<"receive_ts;price_median">>

\* _file << text: a stream that has failed takes nothing; the device takes
\* the text or refuses it (io_ok), which sets the failbit
Put(w, text, io_ok) ==
    IF w.fail \/ ~io_ok THEN [w EXCEPT !.fail = TRUE]
    ELSE [w EXCEPT !.lines = Append(@, text)]

\* result_writer::open() when the file can be opened
open(w, io_ok) == Put([w EXCEPT !.open = TRUE], k_header, io_ok)

\* result_writer::write(): the writer after the call and the error code
write(w, receive_ts_, price_median_, io_ok) ==
    LET w1 == Put(w, format_line(receive_ts_, price_median_), io_ok)
    IN  IF w1.fail THEN [writer |-> w1, err |-> "io_error"]
        ELSE [writer |-> [w1 EXCEPT !.written_count = @ + 1], err |-> ""]

\* ------------------------------------------------------------------------
\* main() (main.cpp)
\* ------------------------------------------------------------------------

\* the lambda on_record that writes after every add()
on_record_always(rec) ==
    /\ UNCHANGED <<exit_code, signalled, obs>>
    /\ IF g_shutdown # 0
       THEN /\ observed' = TRUE
            /\ UNCHANGED <<calc, added, prev_median, changed_log>>
            /\ UNCHANGED <<g_shutdown, writer, written, write_failed>>
       ELSE /\ observed' = observed
            /\ calc' = add(calc, rec.price)
            /\ added' = Append(added, rec.price)
            /\ prev_median' = median(calc)
            /\ changed_log' = Append(changed_log, is_changed(add(calc, rec.price)))
            /\ \E io_ok \in BOOLEAN :
                  LET r == write(writer, rec.receive_ts,
                                 median(add(calc, rec.price)), io_ok)
                  IN  /\ writer' = r.writer
                      /\ IF r.err # ""
                         THEN g_shutdown' = 1 /\ written' = written
                              /\ write_failed' = TRUE
                         ELSE g_shutdown' = g_shutdown /\ written' = written + 1
                              /\ write_failed' = write_failed

\* the lambda on_record that goes on after an error of write()
on_record_keep_going(rec) ==
    /\ UNCHANGED <<exit_code, signalled, obs>>
    /\ IF g_shutdown # 0
       THEN /\ observed' = TRUE
            /\ UNCHANGED <<calc, added, prev_median, changed_log>>
            /\ UNCHANGED <<g_shutdown, writer, written, write_failed>>
       ELSE /\ observed' = observed
            /\ calc' = add(calc, rec.price)
            /\ added' = Append(added, rec.price)
            /\ prev_median' = median(calc)
            /\ changed_log' = Append(changed_log, is_changed(add(calc, rec.price)))
            /\ IF is_changed(add(calc, rec.price))
               THEN \E io_ok \in BOOLEAN :
                       LET r == write(writer, rec.receive_ts,
                                      median(add(calc, rec.price)), io_ok)
                       IN  /\ writer' = r.writer
                           /\ g_shutdown' = g_shutdown
                           /\ IF r.err # ""
                              THEN written' = written /\ write_failed' = TRUE
                              ELSE written' = written + 1
                                   /\ write_failed' = write_failed
               ELSE UNCHANGED <<g_shutdown, writer, written, write_failed>>

\* the lambda on_record of main()
on_record(rec) ==
    /\ UNCHANGED <<exit_code, signalled, obs>>
    /\ IF g_shutdown # 0
       THEN /\ observed' = TRUE
            /\ UNCHANGED <<calc, added, prev_median, changed_log>>
            /\ UNCHANGED <<g_shutdown, writer, written, write_failed>>
       ELSE /\ observed' = observed
            /\ calc' = add(calc, rec.price)
            /\ added' = Append(added, rec.price)
            /\ prev_median' = median(calc)
            /\ changed_log' = Append(changed_log, is_changed(add(calc, rec.price)))
            /\ IF is_changed(add(calc, rec.price))
               THEN \E io_ok \in BOOLEAN :
                       LET r == write(writer, rec.receive_ts,
                                      median(add(calc, rec.price)), io_ok)
                       IN  /\ writer' = r.writer
                           /\ IF r.err # ""
                              THEN g_shutdown' = 1 /\ written' = written
                                   /\ write_failed' = TRUE
                              ELSE g_shutdown' = g_shutdown
                                   /\ written' = written + 1
                                   /\ write_failed' = write_failed
               ELSE UNCHANGED <<g_shutdown, writer, written, write_failed>>

\* data lines under the header receive_ts;price: 1000;100, 2000;101,
\* 3000;102
MainLines ==
    { << <<"1", "0", "0", "0">>, <<"1", "0", "0">> >>,
      << <<"2", "0", "0", "0">>, <<"1", "0", "1">> >>,
      << <<"3", "0", "0", "0">>, <<"1", "0", "2">> >> }

RECURSIVE MainRows(_)
\* the sequences of k lines of MainLines
MainRows(k) ==
    IF k = 0 THEN {<<>>}
    ELSE {Append(rs, l) : rs \in MainRows(k - 1), l \in MainLines}

RECURSIVE MainDirectories(_, _)
\* the directories of n .csv files with both columns and at most r data
\* lines together
MainDirectories(n, r) ==
    IF n = 0 THEN {<<>>}
    ELSE UNION { {<<CsvFile(TRUE, FALSE, GoodHeader, rows)>> \o d :
                     d \in MainDirectories(n - 1, r - Len(rows))} :
                 rows \in UNION {MainRows(k) : k \in 0..r} }

\* config.input_dir: no directory, or a directory of .csv files
MainInputs ==
    {[kind |-> "missing", dir |-> <<>>]}
    \cup {[kind |-> "dir", dir |-> Named(d)] :
             d \in UNION {MainDirectories(n, MaxRows) : n \in 0..MaxFiles}}

\* main() before the call of reader.process(): the configuration is
\* parsed without masks, the handlers are set, the pool has its threads
\* (k_min_threads of them, on a machine that reports no more; the runs of
\* more workers are those of SpecReader), the writer has opened its file
\* and put the header line, which the device took or refused
InitMain ==
    /\ InitCalcVars
    /\ \E in \in MainInputs : dir_kind = in.kind /\ entries = in.dir
    /\ masks = <<>>
    /\ InitReaderVars(1)
    /\ g_shutdown = 0
    /\ \E io_ok \in BOOLEAN : writer = open(NewWriter, io_ok)
    /\ written = 0
    /\ exit_code = "none"
    /\ signalled = FALSE
    /\ observed = FALSE
    /\ write_failed = FALSE
    /\ InitCursorVars
    /\ InitPoolVars

\* the handler of SIGINT or SIGTERM runs, for the first time
Signal ==
    /\ exit_code = "none"
    /\ ~signalled
    /\ g_shutdown' = 1
    /\ signalled' = TRUE
    /\ UNCHANGED <<writer, written, exit_code, observed, write_failed>>
    /\ UNCHANGED <<calcVars, inputVars, readerVars, cursorVars, poolVars>>

\* process(): one round of the merge loop with the lambda of main()
MainMergeStep == MergeRound /\ on_record(TopRecord)

\* main() that reports success whenever process() returned no error
MainReturn_success ==
    /\ pc = "done"
    /\ exit_code = "none"
    /\ exit_code' = IF ret # "" THEN "EXIT_FAILURE" ELSE "EXIT_SUCCESS"
    /\ UNCHANGED <<g_shutdown, writer, written, signalled, observed, write_failed>>
    /\ UNCHANGED <<calcVars, inputVars, readerVars, cursorVars, poolVars>>

\* main() after process() has returned: the exit status
MainReturn ==
    /\ pc = "done"
    /\ exit_code = "none"
    /\ exit_code' = IF ret # "" THEN "EXIT_FAILURE"
                    ELSE IF g_shutdown # 0 THEN "EXIT_FAILURE"
                    ELSE "EXIT_SUCCESS"
    /\ UNCHANGED <<g_shutdown, writer, written, signalled, observed, write_failed>>
    /\ UNCHANGED <<calcVars, inputVars, readerVars, cursorVars, poolVars>>

NextMain ==
    \/ Scan
    \/ Submit
    \/ \E w \in DOMAIN workers : WorkerTake(w)
    \/ \E w \in DOMAIN workers : WorkerRun(w)
    \/ Collect
    \/ Seed
    \/ MainMergeStep
    \/ Finish
    \/ Signal
    \/ MainReturn

SpecMain == InitMain /\ [][NextMain]_vars

\* ------------------------------------------------------------------------
\* Claims about the calculator (checked under SpecCalc)
\* ------------------------------------------------------------------------

\* the median of a non-empty sequence of values, computed from its sorted
\* copy: the middle element, or the average of the two middle elements
TrueMedian(s) ==
    LET sorted == SortSeq(s, <)
        n == Len(s)
    IN  IF n % 2 = 1 THEN sorted[(n + 1) \div 2]
        ELSE (sorted[n \div 2] + sorted[n \div 2 + 1]) \div 2

\* C1: after every add(), median() is the true median of all the values
\* added so far: the middle element of the sorted values for an odd count,
\* the average of the two middle elements for an even count.
C1_MedianIsTrueMedian ==
    added # <<>> => median(calc) = TrueMedian(added)

\* C1 witness: an even number of values whose two middle elements differ
\* (5.0 and 10.0), so that the median is their average 7.5
C1_Witness ==
    /\ Len(added) >= 4
    /\ Len(added) % 2 = 0
    /\ Head(calc.lower) = D(5)
    /\ Head(calc.upper) = D(10)
    /\ median(calc) = (D(5) + D(10)) \div 2

\* C4: in every reachable state lower.size() >= upper.size() and
\* lower.size() - upper.size() <= 1.
C4_SizeInvariant ==
    /\ Len(calc.lower) >= Len(calc.upper)
    /\ Len(calc.lower) - Len(calc.upper) <= 1

\* C4 witness: an add() that went to the upper heap and was moved back by
\* balance(): three ascending values leave lower one larger than upper
C4_Witness ==
    /\ Len(added) = 3
    /\ added[1] < added[2] /\ added[2] < added[3]
    /\ Len(calc.lower) = 2 /\ Len(calc.upper) = 1

\* the add() sequence of the scenario and the flags it must report
ScenarioAdds == <<D(5), D(5), D(5), D(10), D(10), D(10)>>
ScenarioChanged == <<TRUE, FALSE, FALSE, FALSE, FALSE, TRUE>>

\* C5: after each add(), is_changed() is true exactly when the median that
\* add computed differs from what median() returned just before it; and the
\* adds of 5,5,5,10,10,10 report true,false,false,false,false,true.
C5_ChangedIffMedianDiffers ==
    /\ added # <<>> => (is_changed(calc) <=> (median(calc) # prev_median))
    /\ \A k \in 1..Len(added) :
          (k <= Len(ScenarioAdds) /\ SubSeq(added, 1, k) = SubSeq(ScenarioAdds, 1, k))
              => changed_log[k] = ScenarioChanged[k]

\* C5 witness: the whole scenario has run and its last add moved the median
C5_Witness ==
    /\ added = ScenarioAdds
    /\ changed_log = ScenarioChanged
    /\ median(calc) = (D(5) + D(10)) \div 2

\* C6 (as claimed): the first add() on a fresh calculator reports
\* is_changed() = true whatever the first value is.  The code compares with
\* the initial _last_median of 0.0, so add(0.0) reports false.
C6_FirstAddChanged ==
    Len(added) = 1 => is_changed(calc)

\* C7: after n calls of add(), count() is n; the getters do not change it.
C7_CountIsAdds ==
    count(calc) = Len(added)

\* C7 witness: several adds and a getter call that has seen the count
C7_Witness ==
    /\ Len(added) = 5
    /\ obs.count = 5
    /\ count(calc) = 5

\* C8: has_values() is true exactly when at least one add() has occurred,
\* that is exactly when count() > 0.
C8_HasValuesIffCount ==
    /\ has_values(calc) <=> (Len(added) > 0)
    /\ has_values(calc) <=> (count(calc) > 0)

\* C8 witness: values in both heaps, and the fresh calculator's answer seen
\* by a caller before the first add
C8_Witness ==
    /\ calc.upper # <<>>
    /\ has_values(calc)
    /\ obs.has_values = FALSE

\* ------------------------------------------------------------------------
\* Claims about csv_reader::process (checked under SpecReader)
\* ------------------------------------------------------------------------

\* the entry at path p is one scan_directory() selects
Discovered(p) ==
    /\ entries[p].regular
    /\ entries[p].ext = DotCsv
    /\ (masks = <<>> \/ \E k \in 1..Len(masks) : Contains(entries[p].stem, masks[k]))

\* the file can be opened, has a header line, and that line names both columns
ColumnValid(e) ==
    /\ e.openable
    /\ ~e.empty
    /\ \E k \in 1..Len(e.header) : e.header[k] = "receive_ts"
    /\ \E k \in 1..Len(e.header) : e.header[k] = "price"

RECURSIVE RecordsOf(_, _)
\* the records of the lines of rows that parse under the columns of c
RecordsOf(c, rows) ==
    IF rows = <<>> THEN <<>>
    ELSE LET r == parse_line(c, Head(rows))
         IN  (IF Head(rows) # EmptyLine /\ r.ok THEN <<r.cursor.current>> ELSE <<>>)
                 \o RecordsOf(c, Tail(rows))

\* the valid records of a file, in file order; none without the columns
ValidRecords(e) ==
    IF ColumnValid(e)
    THEN RecordsOf([FreshCursor(0) EXCEPT !.ts_col = find_column(e.header, "receive_ts"),
                                          !.price_col = find_column(e.header, "price")],
                   e.rows)
    ELSE <<>>

\* the valid records of the file at p are in non-decreasing receive_ts order
SourceSorted(p) ==
    LET v == ValidRecords(entries[p])
    IN  \A a, b \in 1..Len(v) : a < b => v[a].receive_ts <= v[b].receive_ts

\* the records the source at p must contribute
Expected(p) == IF Discovered(p) THEN ValidRecords(entries[p]) ELSE <<>>

\* the records delivered so far that came from the source at p
DeliveredFrom(p) ==
    LET FromP(d) == d.path = p
        ds == SelectSeq(delivered, FromP)
    IN  [k \in 1..Len(ds) |-> ds[k].rec]

\* how often x occurs in the sequence s
Count(s, x) == Cardinality({k \in 1..Len(s) : s[k] = x})

Range(s) == {s[k] : k \in 1..Len(s)}

RECURSIVE SumExpected(_)
\* the number of valid records of the discovered sources at the paths 1..n
SumExpected(n) == IF n = 0 THEN 0 ELSE SumExpected(n - 1) + Len(Expected(n))

\* C2: when every discovered source is sorted by receive_ts, the records
\* passed to the callback are in non-decreasing receive_ts order.
C2_MergeNonDecreasing ==
    \/ \A a, b \in 1..Len(delivered) :
          a < b => delivered[a].rec.receive_ts <= delivered[b].rec.receive_ts
    \/ ~(\A p \in DOMAIN entries : Discovered(p) => SourceSorted(p))

\* C2 witness: two sorted sources whose records interleave; the merge has
\* gone from one source to the other and back, and has ended
C2_Witness ==
    /\ pc = "done"
    /\ \A p \in DOMAIN entries : Discovered(p) => SourceSorted(p)
    /\ Len(delivered) = 3
    /\ delivered[1].path # delivered[2].path
    /\ delivered[2].path # delivered[3].path
    /\ delivered[1].rec.receive_ts < delivered[3].rec.receive_ts

\* C3: no source ever has a record delivered that it does not hold, or
\* delivered more often than it holds it; when process() has returned
\* success every discovered source with columns has had each of its valid
\* records delivered exactly once, every other entry none, and the number
\* of callback calls is the sum of the valid record counts.
C3_ExactlyTheValidRecords ==
    /\ \A k \in 1..Len(delivered) : delivered[k].path \in DOMAIN entries
    /\ \A p \in DOMAIN entries :
          \A x \in Range(DeliveredFrom(p)) :
              Count(DeliveredFrom(p), x) <= Count(Expected(p), x)
    /\ total = Len(delivered)
    /\ (pc = "done" /\ ret = "") =>
          /\ \A p \in DOMAIN entries :
                \A x \in Range(Expected(p)) \cup Range(DeliveredFrom(p)) :
                    Count(DeliveredFrom(p), x) = Count(Expected(p), x)
          /\ Len(delivered) = SumExpected(Len(entries))

\* C3 witness: process() has returned after the merge of a source that has
\* a line to skip beside its valid ones, with a discovered file without the
\* price column beside it
C3_Witness ==
    /\ pc = "done"
    /\ delivered # <<>>
    /\ \E p \in DOMAIN entries :
          /\ Discovered(p)
          /\ ~ColumnValid(entries[p])
          /\ entries[p].rows # <<>>
    /\ \E q \in DOMAIN entries :
          /\ Discovered(q)
          /\ ValidRecords(entries[q]) # <<>>
          /\ Len(entries[q].rows) > Len(ValidRecords(entries[q]))

\* the initialisation of the source fails: it cannot be opened, is empty,
\* lacks a column or has no valid data line
InitFails(e) == ~ColumnValid(e) \/ ValidRecords(e) = <<>>

\* input_dir_ is a directory in which no source is discovered or every
\* discovered source fails its initialisation
NoUsableSource ==
    /\ dir_kind = "dir"
    /\ \A p \in DOMAIN entries : Discovered(p) => InitFails(entries[p])

\* C9: when the directory exists and no source is discovered, or every
\* discovered source fails its initialisation, the callback is never called
\* and process() returns the empty error code.
C9_NoSourceIsSuccess ==
    \/ /\ delivered = <<>>
       /\ ret \in {"none", ""}
       /\ pc = "done" => ret = ""
    \/ ~NoUsableSource

\* C9 witness: two discovered sources, both failed, and process() returned
C9_Witness ==
    /\ NoUsableSource
    /\ pc = "done"
    /\ submitted = 2
    /\ \A j \in 1..Len(futures) : futures[j].ready
    /\ ret = ""

\* C10: when input_dir_ does not exist or is no directory, no job is given
\* to the pool, the callback is never called, and process() returns an error.
C10_BadDirectoryIsError ==
    dir_kind \in {"missing", "notdir"} =>
        /\ submitted = 0
        /\ tasks = <<>>
        /\ delivered = <<>>
        /\ pc = "done" => ret \notin {"none", ""}

\* C10 witness: process() has returned for an input_dir_ that is a file
C10_Witness ==
    /\ dir_kind = "notdir"
    /\ pc = "done"
    /\ ret = "not_a_directory"

\* C11: a discovered source that cannot be opened, is empty, lacks a column
\* or has no valid data line never has a record delivered and never makes
\* process() return an error; when process() has returned, every other
\* discovered source has had all its valid records delivered.
C11_FailedSourceIsSkipped ==
    \/ delivered = <<>> /\ ret = "none" /\ pc # "done"
    \/ \A p \in DOMAIN entries :
          (Discovered(p) /\ InitFails(entries[p])) =>
              /\ DeliveredFrom(p) = <<>>
              /\ ret \in {"none", ""}
              /\ pc = "done" =>
                    /\ ret = ""
                    /\ \A q \in DOMAIN entries :
                          (Discovered(q) /\ ~InitFails(entries[q])) =>
                              DeliveredFrom(q) = ValidRecords(entries[q])

\* C11 witness: process() has returned success after it delivered the two
\* records of one source, with a source of data lines under a header
\* without the price column beside it
C11_Witness ==
    /\ pc = "done"
    /\ ret = ""
    /\ Len(delivered) = 2
    /\ \E p \in DOMAIN entries :
          /\ Discovered(p)
          /\ ~ColumnValid(entries[p])
          /\ entries[p].openable /\ ~entries[p].empty
          /\ entries[p].rows # <<>>
          /\ \A k \in 1..Len(delivered) : delivered[k].path # p

\* C13: the records passed to the callback are in non-decreasing receive_ts
\* order whatever the order of the data lines within a source file.
C13_SortedWhateverTheFileOrder ==
    \A a \in 1..Len(delivered) :
        \A b \in 1..Len(delivered) :
            a < b => delivered[a].rec.receive_ts <= delivered[b].rec.receive_ts

\* ------------------------------------------------------------------------
\* Claims about one file_cursor (checked under SpecCursor)
\* ------------------------------------------------------------------------

\* the data line has a non-empty field in both columns of the header and
\* both fields begin with a number of their type
GoodLine(header_, line_) ==
    LET t == find_column(header_, "receive_ts") + 1
        q == find_column(header_, "price") + 1
    IN  /\ t >= 1 /\ t <= Len(line_)
        /\ q >= 1 /\ q <= Len(line_)
        /\ line_[t] # <<>> /\ line_[q] # <<>>
        /\ from_chars_u64(line_[t]).ok
        /\ from_chars_double(line_[q]).ok

\* the record of a good line
RecordOfLine(header_, line_) ==
    [receive_ts |-> from_chars_u64(line_[find_column(header_, "receive_ts") + 1]).value,
     price |-> from_chars_double(line_[find_column(header_, "price") + 1]).value]

\* the numbers of the good data lines of the file, in ascending order
GoodLineNumbers(f) ==
    SortedSeq({k \in 1..Len(f.rows) : GoodLine(f.header, f.rows[k])})

\* C12: on a file with both columns, the n-th call of advance() (the
\* constructor's included) returns true exactly when the file has an n-th
\* good line, and then the cursor is on that line with its record: every
\* line with too few fields, an empty field or a field that is no number
\* is passed over, and false is returned only when no good line remains.
C12_AdvanceSkipsBadLines ==
    (cur.path = 1 /\ ColumnValid(file)) =>
        \A n \in 1..Len(seen) :
            IF n <= Len(GoodLineNumbers(file))
            THEN /\ seen[n].ok
                 /\ seen[n].line = GoodLineNumbers(file)[n]
                 /\ seen[n].rec = RecordOfLine(file.header, file.rows[seen[n].line])
            ELSE ~seen[n].ok

\* C12 witness: a line with a price that is no number between two good
\* lines; the three calls returned the first line, the third line, false
C12_Witness ==
    /\ cur.path = 1
    /\ ColumnValid(file)
    /\ Len(file.rows) = 3
    /\ file.rows[2] = << <<"2">>, <<"x">> >>
    /\ Len(seen) = 3
    /\ seen[1].ok /\ seen[1].line = 1
    /\ seen[2].ok /\ seen[2].line = 3
    /\ ~seen[3].ok

\* ------------------------------------------------------------------------
\* Claims about the order within a source and about the pool's barrier
\* (checked under SpecReader)
\* ------------------------------------------------------------------------

\* C14: the records of one source are passed to the callback in the order
\* of their lines in the file: each delivered record is the record of the
\* good line the cursor was on, and of two records of the same source the
\* one delivered first is on the earlier line, equal receive_ts or not.
C14_SourceOrderKept ==
    /\ \A k \in 1..Len(delivered) :
          LET e == entries[delivered[k].path]
          IN  /\ delivered[k].line \in 1..Len(e.rows)
              /\ GoodLine(e.header, e.rows[delivered[k].line])
              /\ delivered[k].rec = RecordOfLine(e.header, e.rows[delivered[k].line])
    /\ \A a \in 1..Len(delivered) :
          \A b \in 1..Len(delivered) :
              (a < b /\ delivered[a].path = delivered[b].path) =>
                  delivered[a].line < delivered[b].line

\* C14 witness: a source whose first two lines have the same receive_ts,
\* both delivered, the first line first and the second right after it,
\* and a record of another source delivered as well
C14_Witness ==
    /\ pc = "done"
    /\ Len(delivered) = 3
    /\ \E k \in 1..2 :
          /\ delivered[k].path = delivered[k + 1].path
          /\ delivered[k].rec.receive_ts = delivered[k + 1].rec.receive_ts
          /\ delivered[k].line = 1
          /\ delivered[k + 1].line = 2
    /\ \E k \in 1..3 : delivered[k].path # delivered[2].path

\* the paths whose source is valid after its initialisation, in the order
\* of paths
ValidPaths ==
    LET Usable(q) == ~InitFails(entries[q])
    IN  SelectSeq(paths, Usable)

\* C20: before the loop over the futures has ended, the heap is empty, no
\* record has been delivered and every cursor kept so far is valid; from
\* the seeding of the heap on, every submitted job has made its future
\* ready, the queue of the pool is empty and no worker runs a job, one job
\* was submitted per path, and the cursors kept are those of exactly the
\* sources that are valid after their initialisation.
C20_ForkJoinBarrier ==
    IF pc \in {"scan", "submit", "collect"}
    THEN /\ heap = <<>>
         /\ delivered = <<>>
         /\ \A k \in 1..Len(cursors) : is_valid(cursors[k])
    ELSE /\ \A j \in 1..Len(futures) : futures[j].ready
         /\ tasks = <<>>
         /\ \A w \in DOMAIN workers : workers[w].state = "wait"
         /\ submitted = Len(paths)
         /\ Len(futures) = Len(paths)
         /\ [k \in 1..Len(cursors) |-> cursors[k].path] = ValidPaths

\* C20 witness: the first record is delivered, after two jobs were
\* submitted and run, of which one gave a cursor that is not kept
C20_Witness ==
    /\ pc = "merge"
    /\ Len(delivered) = 1
    /\ submitted = 2
    /\ Len(cursors) = 1
    /\ \E j \in 1..2 : ~is_valid(futures[j].value)

\* ------------------------------------------------------------------------
\* Claims about the discovery (checked under SpecScan)
\* ------------------------------------------------------------------------

\* the file name of an entry
FileName(e) == e.stem \o e.ext

\* x is y[u+1..v] for some u and v
IsSubstring(x, y) ==
    \E u \in 0..Len(y) : \E v \in u..Len(y) : SubSeq(y, u + 1, v) = x

\* the entry at p is a regular file, its name is something followed by
\* .csv, and without masks, or with a mask that occurs in that something,
\* it is to be selected
Selected(p) ==
    LET name == FileName(entries[p])
        n == Len(name)
    IN  /\ entries[p].regular
        /\ n > 4
        /\ SubSeq(name, n - 3, n) = DotCsv
        /\ \/ masks = <<>>
           \/ \E k \in 1..Len(masks) : IsSubstring(masks[k], SubSeq(name, 1, n - 4))

\* C15: the paths process() works on are exactly the regular files of the
\* directory with the extension .csv whose stem contains one of the masks
\* as a substring, upper and lower case distinguished; without masks they
\* are all the regular .csv files.
C15_DiscoveryIsExact ==
    pc # "scan" => paths = SortedSeq({p \in DOMAIN entries : Selected(p)})

\* C15 witness: with the mask t, the file aT.csv is left out and bt.csv is
\* the one source process() has read
C15_Witness ==
    /\ pc = "done"
    /\ masks = << <<"t">> >>
    /\ Len(entries) = 2
    /\ entries[1].regular
    /\ FileName(entries[1]) = <<"a", "T">> \o DotCsv
    /\ paths = <<2>>
    /\ Len(delivered) = 1

\* ------------------------------------------------------------------------
\* Claims about main() (checked under SpecMain)
\* ------------------------------------------------------------------------

RECURSIVE ExpectedLines(_, _)
\* the lines of the output for the delivered records recs, fed to a
\* calculator that is c before them: one line per add() after which
\* is_changed() is true
ExpectedLines(recs, c) ==
    IF recs = <<>> THEN <<>>
    ELSE LET c1 == add(c, Head(recs).rec.price)
         IN  (IF is_changed(c1)
              THEN <<format_line(Head(recs).rec.receive_ts, median(c1))>>
              ELSE <<>>) \o ExpectedLines(Tail(recs), c1)

\* C16: while g_shutdown is not set and no write has failed, the values
\* passed to add() are the prices of the delivered records, one add() per
\* record in merged order, and the lines of the output after the header
\* are, in that order, receive_ts and median() of exactly the records
\* after whose add() is_changed() was true.
C16_AddOnceWriteIfChanged ==
    (g_shutdown = 0 /\ ~writer.fail) =>
        /\ added = [k \in 1..Len(delivered) |-> delivered[k].rec.price]
        /\ writer.lines = <<k_header>> \o ExpectedLines(delivered, NewCalculator)
        /\ written = Len(writer.lines) - 1

\* C16 witness: the sources A = 1000;100, 3000;102 and B = 2000;101 gave
\* the lines 1000;100.00000000, 2000;100.50000000 and 3000;101.00000000
C16_Witness ==
    /\ exit_code = "EXIT_SUCCESS"
    /\ Len(entries) = 2
    /\ Len(entries[1].rows) = 2
    /\ [k \in 1..Len(delivered) |-> delivered[k].path] = <<1, 2, 1>>
    /\ writer.lines = <<k_header,
                        <<"1", "0", "0", "0", ";", "1", "0", "0", ".",
                          "0", "0", "0", "0", "0", "0", "0", "0">>,
                        <<"2", "0", "0", "0", ";", "1", "0", "0", ".",
                          "5", "0", "0", "0", "0", "0", "0", "0">>,
                        <<"3", "0", "0", "0", ";", "1", "0", "1", ".",
                          "0", "0", "0", "0", "0", "0", "0", "0">> >>

\* C17: once on_record has found g_shutdown set, the merge is abandoned:
\* no step reads a further line through a cursor and no step passes a
\* further record to the callback.
C17_MergeAbandoned ==
    [][observed => (cursors' = cursors /\ delivered' = delivered)]_vars

\* C18: when a signal has set g_shutdown, process() has returned no error
\* and the output stream has not failed, main() does not return
\* EXIT_FAILURE.
C18_ShutdownIsNotFailure ==
    (exit_code # "none" /\ signalled /\ ret = "" /\ ~writer.fail /\ ~write_failed)
        => exit_code # "EXIT_FAILURE"

\* C19: from the first call of write() that returns an error on, no step
\* changes the calculator or adds a line to the output, and when main()
\* has returned after such a call it has returned EXIT_FAILURE.
C19_WriteFailureIsFatal ==
    /\ []((write_failed /\ exit_code # "none") => exit_code = "EXIT_FAILURE")
    /\ [][write_failed => (/\ calc' = calc
                           /\ added' = added
                           /\ writer'.lines = writer.lines)]_vars

\* C19 witness: no signal; the second write() failed, the third record
\* was passed to on_record and neither added nor written, and main()
\* returned EXIT_FAILURE
C19_Witness ==
    /\ exit_code = "EXIT_FAILURE"
    /\ write_failed
    /\ ~signalled
    /\ Len(delivered) = 3
    /\ Len(added) = 2
    /\ Len(writer.lines) = 2
    /\ observed

\* ------------------------------------------------------------------------
\* thread_pool (pool.hpp) and its callers: submitter threads that call
\* submit() concurrently (job j is the j-th to enter the locked section),
\* callers of get() on the futures, and the owner that destroys the pool
\* once no submitter that entered before the destructor is inside submit()
\* ------------------------------------------------------------------------

\* number of jobs the client has to submit
MaxJobs == 3

\* the workers that are blocked in _cv.wait()
Sleepers == {w \in DOMAIN pool.workers : pool.workers[w].state = "sleep"}

\* what job j returns: its own value, as the jobs of test_pool.cpp do
JobValue(j) == j * j

InitPool ==
    /\ InitCalcVars
    /\ dir_kind = "missing" /\ entries = <<>> /\ masks = <<>>
    /\ InitReaderVars(1)
    /\ InitMainVars
    /\ InitCursorVars
    /\ \E n \in 1..MaxWorkers : pool = NewPool(n)
    /\ \E n \in 1..MaxJobs : jobs \in [1..n -> {"returns", "throws"}]
    /\ client = [pc |-> "idle", join |-> 1, notifying |-> 0]
    /\ pfutures = <<>>
    /\ counter = 0
    /\ runs = <<>>
    /\ got = <<>>

\* what no action of the pool changes
PoolFrame == UNCHANGED <<calcVars, inputVars, readerVars, mainVars, cursorVars, jobs>>

\* submit(): the packaged_task and its future are made, and under the mutex
\* the task is put in the queue, or runtime_error is thrown when _stop is
\* set (the call then returns no future: the entry is "rejected")
PoolEnqueue ==
    /\ client.pc # "destroyed"
    /\ Len(pfutures) < Len(jobs)
    /\ IF pool.stop
       THEN /\ pfutures' = Append(pfutures, [state |-> "rejected", value |-> 0])
            /\ UNCHANGED <<pool, client>>
       ELSE /\ pool' = [pool EXCEPT !.tasks = Append(@, Len(pfutures) + 1)]
            /\ pfutures' = Append(pfutures, [state |-> "pending", value |-> 0])
            /\ client' = [client EXCEPT !.notifying = @ + 1]
    /\ runs' = Append(runs, <<>>)
    /\ got' = Append(got, [state |-> "pending", value |-> 0])
    /\ counter' = counter
    /\ PoolFrame

\* submit() without its _cv.notify_one()
PoolNotifyOne_none ==
    /\ client.notifying > 0
    /\ pool' = pool
    /\ client' = [client EXCEPT !.notifying = @ - 1]
    /\ UNCHANGED <<pfutures, counter, runs, got>>
    /\ PoolFrame

\* submit(): _cv.notify_one() unblocks one of the workers blocked in
\* wait(), if there is one, and submit() returns the future
PoolNotifyOne ==
    /\ client.notifying > 0
    /\ IF Sleepers = {} THEN pool' = pool
       ELSE \E w \in Sleepers :
               pool' = [pool EXCEPT !.workers[w].state = "lock"]
    /\ client' = [client EXCEPT !.notifying = @ - 1]
    /\ UNCHANGED <<pfutures, counter, runs, got>>
    /\ PoolFrame

\* the caller calls get() on the future of job j, which blocks until the
\* shared state is ready and gives the value or rethrows the exception;
\* the futures are asked in the order of their submission, as process()
\* and the tests ask them
PoolGet(j) ==
    /\ got[j].state = "pending"
    /\ pfutures[j].state \in {"value", "exception"}
    /\ \A k \in 1..(j - 1) : got[k].state # "pending" \/ pfutures[k].state = "rejected"
    /\ got' = [got EXCEPT ![j] = pfutures[j]]
    /\ UNCHANGED <<pool, client, pfutures, counter, runs>>
    /\ PoolFrame

\* ~thread_pool(): under the mutex, _stop = true
PoolStop ==
    /\ client.pc = "idle"
    /\ client.notifying = 0
    /\ pool' = [pool EXCEPT !.stop = TRUE]
    /\ client' = [client EXCEPT !.pc = "notify_all"]
    /\ UNCHANGED <<pfutures, counter, runs, got>>
    /\ PoolFrame

\* ~thread_pool(): _cv.notify_all() unblocks every worker blocked in wait()
PoolNotifyAll ==
    /\ client.pc = "notify_all"
    /\ pool' = [pool EXCEPT !.workers =
                    [w \in DOMAIN pool.workers |->
                        IF w \in Sleepers THEN [pool.workers[w] EXCEPT !.state = "lock"]
                        ELSE pool.workers[w]]]
    /\ client' = [client EXCEPT !.pc = "join"]
    /\ UNCHANGED <<pfutures, counter, runs, got>>
    /\ PoolFrame

\* ~thread_pool(): worker.join() of the next worker, which blocks until
\* its thread has ended
PoolJoin ==
    /\ client.pc = "join"
    /\ pool.workers[client.join].state = "exited"
    /\ client' = IF client.join = Len(pool.workers)
                 THEN [client EXCEPT !.pc = "destroyed"]
                 ELSE [client EXCEPT !.join = @ + 1]
    /\ UNCHANGED <<pool, pfutures, counter, runs, got>>
    /\ PoolFrame

\* worker_loop() that leaves the task it takes in the queue
PoolCheck_no_pop(w) ==
    /\ pool.workers[w].state = "lock"
    /\ pool' = IF ~pool.stop /\ pool.tasks = <<>>
               THEN [pool EXCEPT !.workers[w].state = "sleep"]
               ELSE IF pool.stop /\ pool.tasks = <<>>
               THEN [pool EXCEPT !.workers[w].state = "exited"]
               ELSE [pool EXCEPT !.workers[w] = [state |-> "run", task |-> Head(pool.tasks)]]
    /\ UNCHANGED <<client, pfutures, counter, runs, got>>
    /\ PoolFrame

\* worker_loop(): with the mutex, the predicate of wait() is evaluated and
\* the worker blocks, or it returns, or it takes the front of the queue
PoolCheck(w) ==
    /\ pool.workers[w].state = "lock"
    /\ pool' = IF ~pool.stop /\ pool.tasks = <<>>
               THEN [pool EXCEPT !.workers[w].state = "sleep"]
               ELSE IF pool.stop /\ pool.tasks = <<>>
               THEN [pool EXCEPT !.workers[w].state = "exited"]
               ELSE [pool EXCEPT !.workers[w] = [state |-> "run", task |-> Head(pool.tasks)],
                                 !.tasks = Tail(@)]
    /\ UNCHANGED <<client, pfutures, counter, runs, got>>
    /\ PoolFrame

\* a worker blocked in wait() is unblocked without a notification
PoolSpurious(w) ==
    /\ pool.workers[w].state = "sleep"
    /\ pool' = [pool EXCEPT !.workers[w].state = "lock"]
    /\ UNCHANGED <<client, pfutures, counter, runs, got>>
    /\ PoolFrame

\* task() with a job whose exception leaves the packaged_task and ends the
\* thread of the worker
PoolRun_escape(w) ==
    /\ pool.workers[w].state = "run"
    /\ LET j == pool.workers[w].task
       IN  /\ runs' = [runs EXCEPT ![j] = Append(@, w)]
           /\ IF jobs[j] = "returns"
              THEN /\ counter' = counter + 1
                   /\ pfutures' = [pfutures EXCEPT ![j] =
                                      [state |-> "value", value |-> JobValue(j)]]
                   /\ pool' = [pool EXCEPT !.workers[w] = [state |-> "lock", task |-> 0]]
              ELSE /\ counter' = counter
                   /\ pfutures' = pfutures
                   /\ pool' = [pool EXCEPT !.workers[w] = [state |-> "terminated", task |-> 0]]
    /\ UNCHANGED <<client, got>>
    /\ PoolFrame

\* worker_loop(): task(), the packaged_task that runs the job and stores
\* its value or its exception in the shared state of the future
PoolRun(w) ==
    /\ pool.workers[w].state = "run"
    /\ LET j == pool.workers[w].task
       IN  /\ runs' = [runs EXCEPT ![j] = Append(@, w)]
           /\ IF jobs[j] = "returns"
              THEN /\ counter' = counter + 1
                   /\ pfutures' = [pfutures EXCEPT ![j] =
                                      [state |-> "value", value |-> JobValue(j)]]
              ELSE /\ counter' = counter
                   /\ pfutures' = [pfutures EXCEPT ![j] =
                                      [state |-> "exception", value |-> 0]]
    /\ pool' = [pool EXCEPT !.workers[w] = [state |-> "lock", task |-> 0]]
    /\ UNCHANGED <<client, got>>
    /\ PoolFrame

NextPool ==
    \/ PoolEnqueue
    \/ PoolNotifyOne
    \/ \E j \in 1..Len(pfutures) : PoolGet(j)
    \/ PoolStop
    \/ PoolNotifyAll
    \/ PoolJoin
    \/ \E w \in DOMAIN pool.workers : PoolCheck(w)
    \/ \E w \in DOMAIN pool.workers : PoolSpurious(w)
    \/ \E w \in DOMAIN pool.workers : PoolRun(w)

SpecPool == InitPool /\ [][NextPool]_vars

\* ------------------------------------------------------------------------
\* thread_pool under fair scheduling, with jobs that return
\* ------------------------------------------------------------------------

InitPoolFair ==
    /\ InitCalcVars
    /\ dir_kind = "missing" /\ entries = <<>> /\ masks = <<>>
    /\ InitReaderVars(1)
    /\ InitMainVars
    /\ InitCursorVars
    /\ \E n \in 1..MaxWorkers : pool = NewPool(n)
    /\ \E n \in 1..MaxJobs : jobs = [j \in 1..n |-> "returns"]
    /\ client = [pc |-> "idle", join |-> 1, notifying |-> 0]
    /\ pfutures = <<>>
    /\ counter = 0
    /\ runs = <<>>
    /\ got = <<>>

\* a step of the thread of worker w
PoolWorkerStep(w) ==
    /\ w \in DOMAIN pool.workers
    /\ (PoolCheck(w) \/ PoolRun(w))

\* the scheduler is fair to every thread that can take a step: a worker
\* that can take the mutex or run its task does so, and a thread inside
\* submit() or the destructor goes on to its notify and its join.  Nothing
\* is assumed of spurious wake-ups, of further calls of submit() and get(),
\* or of the moment the owner destroys the pool.
SpecPoolFair ==
    /\ InitPoolFair
    /\ [][NextPool]_vars
    /\ \A w \in 1..MaxWorkers : WF_vars(PoolWorkerStep(w))
    /\ WF_vars(PoolNotifyOne)
    /\ WF_vars(PoolNotifyAll)
    /\ WF_vars(PoolJoin)

\* ------------------------------------------------------------------------
\* thread_pool claims
\* ------------------------------------------------------------------------

\* the jobs submit() has accepted
Accepted == {j \in 1..Len(pfutures) : pfutures[j].state # "rejected"}

\* where an accepted job is: how many times it is in the queue, how many
\* workers are running it, and how many times it has been run
Queued(j) == Cardinality({k \in 1..Len(pool.tasks) : pool.tasks[k] = j})
Running(j) == Cardinality({w \in DOMAIN pool.workers :
                             pool.workers[w].state = "run" /\ pool.workers[w].task = j})

\* C21: every task accepted by submit is executed exactly once, by one
\* worker: at every moment it is either once in the queue, or being run by
\* one worker, or has been run once, and once the destructor has returned
\* it has been run; its future yields its own return value, and the
\* counter the jobs increment counts each job that has run once
C21_ExecutedExactlyOnce ==
    /\ \A j \in Accepted :
          /\ Queued(j) + Running(j) + Len(runs[j]) = 1
          /\ (pfutures[j].state # "pending") <=> (Len(runs[j]) = 1)
          /\ pfutures[j].state = "value" =>
                 jobs[j] = "returns" /\ pfutures[j].value = JobValue(j)
          /\ got[j].state = "value" => got[j].value = JobValue(j)
          /\ client.pc = "destroyed" => Len(runs[j]) = 1
    /\ \A j \in 1..Len(pfutures) \ Accepted :
          Queued(j) + Running(j) + Len(runs[j]) = 0
    /\ counter = Cardinality({j \in Accepted : jobs[j] = "returns" /\ runs[j] # <<>>})

\* every job of the largest batch was accepted and run, the jobs were run
\* by more than one worker, and every future has given its value
C21_Witness ==
    /\ Len(jobs) = MaxJobs
    /\ Accepted = 1..MaxJobs
    /\ counter = MaxJobs
    /\ \A j \in 1..MaxJobs : got[j] = [state |-> "value", value |-> JobValue(j)]
    /\ \E j, k \in 1..MaxJobs : runs[j] # runs[k]
    /\ runs[1] = <<2>>

\* C22: a job that fails has its failure stored in its future, and get()
\* gives that failure to the caller; no worker is ended by a job: a worker
\* is waiting, taking a task or running one until the destructor has set
\* _stop, and the worker that ran a failing job goes on to take tasks, so
\* that every job accepted is run by the time the destructor returns
C22_FailureGoesToTheFuture ==
    /\ \A w \in DOMAIN pool.workers :
          /\ pool.workers[w].state \in {"lock", "sleep", "run", "exited"}
          /\ pool.workers[w].state = "exited" => pool.stop /\ pool.tasks = <<>>
    /\ \A j \in Accepted :
          /\ (jobs[j] = "throws" /\ runs[j] # <<>>) =>
                 pfutures[j] = [state |-> "exception", value |-> 0]
          /\ (jobs[j] = "throws" /\ got[j].state # "pending") =>
                 got[j].state = "exception"
          /\ pfutures[j].state = "exception" => jobs[j] = "throws"
          /\ client.pc = "destroyed" => runs[j] # <<>>

\* the only worker of a pool ran a failing job, whose failure get() has
\* given to the caller, and then ran the job queued behind it
C22_Witness ==
    /\ Len(pool.workers) = 1
    /\ Len(pfutures) >= 2
    /\ jobs[1] = "throws" /\ jobs[2] = "returns"
    /\ runs[1] = <<1>> /\ runs[2] = <<1>>
    /\ got[1].state = "exception"
    /\ got[2] = [state |-> "value", value |-> JobValue(2)]

\* ------------------------------------------------------------------------
\* More claims about one file_cursor (checked under SpecCursor)
\* ------------------------------------------------------------------------

\* the calls of advance() that returned true
OkCalls == {n \in 1..Len(seen) : seen[n].ok}

\* the last of them
LastOkCall == CHOOSE n \in OkCalls : \A m \in OkCalls : m <= n

\* C23: once a call of advance() has returned true, current() is the
\* record that the last call that returned true left, whatever lines
\* were passed over since and also after the end of the file
C23_CurrentIsLastParsed ==
    (cur.path = 1 /\ OkCalls # {}) => current(cur) = seen[LastOkCall].rec

\* the field is in its entirety an unsigned integer literal
IsUnsignedLiteral(f) == f # <<>> /\ DigitPrefix(f) = f

\* the field is in its entirety a decimal literal, [-]digits[.digits]
IsDecimalLiteral(f) ==
    LET body == IF f # <<>> /\ Head(f) = "-" THEN Tail(f) ELSE f
        int == DigitPrefix(body)
        rest == SubSeq(body, Len(int) + 1, Len(body))
    IN  /\ int # <<>>
        /\ \/ rest = <<>>
           \/ /\ Len(rest) >= 2
              /\ Head(rest) = "."
              /\ DigitPrefix(Tail(rest)) = Tail(rest)

\* C24: a call of advance() returns true only on a line whose receive_ts
\* field is in its entirety an unsigned integer literal and whose price
\* field is in its entirety a decimal literal
C24_OnlyWholeLiterals ==
    (cur.path = 1 /\ ColumnValid(file)) =>
        \A n \in OkCalls :
            LET line_ == file.rows[seen[n].line]
            IN  /\ IsUnsignedLiteral(FieldAt(line_, find_column(file.header, "receive_ts")))
                /\ IsDecimalLiteral(FieldAt(line_, find_column(file.header, "price")))

\* ------------------------------------------------------------------------
\* Claims about the merge loop (checked under SpecMerge)
\* ------------------------------------------------------------------------

\* the largest number of a non-empty set
SetMax(S) == CHOOSE n \in S : \A m \in S : m <= n

\* the deliveries of records of the cursor idx
DeliveriesOf(idx) == {k \in 1..Len(delivered) : delivered[k].path = cursors[idx].path}

\* when the heap entry of the cursor idx was emplaced: the seeding loop
\* emplaces the entries in the order of the cursors, and a round emplaces
\* the entry of the cursor whose record it has just delivered
InsertedAt(idx) ==
    IF DeliveriesOf(idx) = {} THEN idx
    ELSE Len(cursors) + SetMax(DeliveriesOf(idx))

\* C25 as stated: of the heap entries with the timestamp of the top, the
\* top, which is delivered next, is the one emplaced first
C25_TiesByInsertionOrder ==
    (pc = "merge" /\ heap # <<>>) =>
        \A k \in 2..Len(heap) :
            heap[k][1] = Head(heap)[1] =>
                InsertedAt(Head(heap)[2]) < InsertedAt(heap[k][2])

\* C25 amended: of the heap entries with the timestamp of the top, the
\* top, which is delivered next, is the one of the cursor with the
\* smallest index; so of two records of different sources with the same
\* receive_ts delivered one right after the other, the first is from the
\* source that is earlier in the sorted paths
C25_TiesByCursorIndex ==
    /\ (pc = "merge" /\ heap # <<>>) =>
          \A k \in 2..Len(heap) :
              heap[k][1] = Head(heap)[1] => Head(heap)[2] < heap[k][2]
    /\ \A k \in 1..(Len(delivered) - 1) :
          (/\ delivered[k].rec.receive_ts = delivered[k + 1].rec.receive_ts
           /\ delivered[k].path # delivered[k + 1].path) =>
              delivered[k].path < delivered[k + 1].path

\* C25 witness: the first source has the receive_ts 1 and 2 and the second
\* source the receive_ts 2; the entry of the first source for its second
\* record was emplaced after the entry of the second source, and its
\* record was delivered before
C25_Witness ==
    /\ Len(delivered) = 3
    /\ delivered[1].path = 1 /\ delivered[1].rec.receive_ts = 1
    /\ delivered[2].path = 1 /\ delivered[2].rec.receive_ts = 2
    /\ delivered[3].path = 2 /\ delivered[3].rec.receive_ts = 2

\* C26: once process() is in the merge loop it comes, after the rounds of
\* the loop, to return success with the heap empty and every retained
\* cursor exhausted
C26_MergeTerminates ==
    (pc = "merge") ~>
        (/\ pc = "done"
         /\ ret = ""
         /\ heap = <<>>
         /\ \A idx \in 1..Len(cursors) : ~is_valid(cursors[idx]))

\* C26 witness: process() has returned after a merge of two sources that
\* took as many rounds as the sources have lines
C26_Witness ==
    /\ pc = "done"
    /\ ret = ""
    /\ Len(cursors) = 2
    /\ total = MaxRows
    /\ heap = <<>>
    /\ \A idx \in 1..Len(cursors) : ~is_valid(cursors[idx])

\* the heap entries of the cursor idx
EntriesOf(idx) == {k \in 1..Len(heap) : heap[k][2] = idx}

\* C27: before every round of the merge loop, and when the loop ends, the
\* heap has one entry for each retained cursor that is valid and none for
\* a cursor that is exhausted, and the ts of an entry is the receive_ts of
\* the current record of its cursor
C27_HeapMirrorsCursors ==
    pc = "merge" =>
        /\ \A idx \in 1..Len(cursors) :
              Cardinality(EntriesOf(idx)) = IF is_valid(cursors[idx]) THEN 1 ELSE 0
        /\ \A k \in 1..Len(heap) :
              /\ heap[k][2] \in 1..Len(cursors)
              /\ heap[k][1] = current(cursors[heap[k][2]]).receive_ts

\* C27 witness: after two rounds the first of two cursors is exhausted and
\* the second, which has advanced to a record with another receive_ts, has
\* the only entry of the heap
C27_Witness ==
    /\ pc = "merge"
    /\ Len(cursors) = 2
    /\ Len(delivered) = 2
    /\ ~is_valid(cursors[1])
    /\ is_valid(cursors[2])
    /\ delivered[2].path = cursors[2].path
    /\ heap = << <<current(cursors[2]).receive_ts, 2>> >>
    /\ delivered[2].rec.receive_ts # current(cursors[2]).receive_ts

\* the records a file_cursor holds: its members have room for one
CursorHoldsOneRecord(c) ==
    /\ DOMAIN c = {"path", "pos", "current", "ts_col", "price_col", "line_num", "valid"}
    /\ DOMAIN c.current = {"receive_ts", "price"}
    /\ c.current.receive_ts \in Nat
    /\ c.current.price \in Int

\* C30: the heap never has more entries than there are retained cursors,
\* of which there are no more than paths, and a cursor holds one record,
\* however many lines the sources have
C30_MemoryBySources ==
    /\ Len(heap) <= Len(cursors)
    /\ Len(cursors) <= Len(paths)
    /\ \A idx \in 1..Len(cursors) : CursorHoldsOneRecord(cursors[idx])

\* C30 witness: two cursors on sources of three lines together, both in
\* the heap after a record has been delivered
C30_Witness ==
    /\ pc = "merge"
    /\ Len(cursors) = 2
    /\ Len(heap) = 2
    /\ Len(delivered) >= 1
    /\ Len(entries[cursors[1].path].rows) + Len(entries[cursors[2].path].rows) = MaxRows

\* ------------------------------------------------------------------------
\* More claims about the calculator (checked under SpecCalc)
\* ------------------------------------------------------------------------

\* C28: after every add(), every element of _lower is less than or equal
\* to every element of _upper
C28_LowerBelowUpper ==
    \A a \in 1..Len(calc.lower) :
        \A b \in 1..Len(calc.upper) : calc.lower[a] <= calc.upper[b]

\* C28 witness: after five adds with a value added more than once, that
\* value is the top of both heaps
C28_Witness ==
    /\ Len(added) = 5
    /\ calc.upper # <<>>
    /\ Head(calc.lower) = Head(calc.upper)
    /\ \E a \in 1..Len(added) : added[a] # Head(calc.lower)

RECURSIVE CalcAfter(_)
\* the calculator after the first k of the adds
CalcAfter(k) ==
    IF k = 0 THEN NewCalculator ELSE add(CalcAfter(k - 1), added[k])

\* _lower.size() - _upper.size()
SizeDiff(c) == Len(c.lower) - Len(c.upper)

\* the calculator of the last add() after the routing, before balance()
LastRouted == Route(CalcAfter(Len(added) - 1), added[Len(added)])

\* C29: in the last add(), after the routing the size difference was -1,
\* 0, 1 or 2; balance() moved no element or one element from one heap to
\* the other, and left _lower with as many elements as _upper or one more
C29_OneMoveRestoresBalance ==
    added # <<>> =>
        /\ calc.lower = balance(LastRouted).lower
        /\ calc.upper = balance(LastRouted).upper
        /\ SizeDiff(LastRouted) \in {0 - 1, 0, 1, 2}
        /\ Len(calc.lower) - Len(LastRouted.lower) \in {0 - 1, 0, 1}
        /\ Len(calc.lower) + Len(calc.upper) = Len(LastRouted.lower) + Len(LastRouted.upper)
        /\ SizeDiff(calc) \in {0, 1}

\* C29 witness: the last add() routed its value to _lower, which was the
\* larger heap already, and balance() moved the top of _lower to _upper
C29_Witness ==
    /\ Len(added) = 4
    /\ SizeDiff(LastRouted) = 2
    /\ Len(calc.lower) = 2 /\ Len(calc.upper) = 2
    /\ Head(calc.upper) = Head(LastRouted.lower)

\* ------------------------------------------------------------------------
\* The delivered sequence as a function of the directory and the masks
\* (checked under SpecReader, with every pool size and worker order)
\* ------------------------------------------------------------------------

\* the paths scan_directory() gives for the directory and the masks
ScannedPaths == scan_directory(dir_kind, entries, masks).paths

RECURSIVE CursorsOfPaths(_)
\* the valid cursors of the first n scanned paths, in the order of the paths
CursorsOfPaths(n) ==
    IF n = 0 THEN <<>>
    ELSE LET c == file_cursor(ScannedPaths[n], entries[ScannedPaths[n]])
         IN  IF is_valid(c) THEN Append(CursorsOfPaths(n - 1), c)
             ELSE CursorsOfPaths(n - 1)

RECURSIVE MergeOf(_, _)
\* the records the merge loop delivers from the cursors cs with the heap h
MergeOf(cs, h) ==
    IF h = <<>> THEN <<>>
    ELSE LET idx == Head(h)[2]
             r == advance(cs[idx], entries[cs[idx].path].rows)
         IN  <<[rec |-> current(cs[idx]), path |-> cs[idx].path,
                line |-> cs[idx].line_num]>>
                 \o MergeOf([cs EXCEPT ![idx] = r.cursor],
                            IF r.ok
                            THEN HeapEmplace(Tail(h), <<current(r.cursor).receive_ts, idx>>)
                            ELSE Tail(h))

\* what the directory and the masks determine: the records to deliver, in
\* their order, with the source and the line of each
DeterminedSequence ==
    IF scan_directory(dir_kind, entries, masks).err # "" THEN <<>>
    ELSE LET cs == CursorsOfPaths(Len(ScannedPaths))
         IN  MergeOf(cs, SeedHeap(cs, Len(cs)))

\* C31: whatever the number of workers and the order in which they take
\* and finish the jobs, the retained cursors are in the order of the sorted
\* paths, the records delivered so far are the beginning of the sequence
\* that the directory and the masks determine, and when process() has
\* returned the delivered sequence is that sequence
C31_DeliveredIsDetermined ==
    \/ delivered = <<>> /\ cursors = <<>> /\ pc # "done"
    \/ /\ \A a, b \in 1..Len(cursors) : a < b => cursors[a].path < cursors[b].path
       /\ Len(delivered) <= Len(DeterminedSequence)
       /\ delivered = SubSeq(DeterminedSequence, 1, Len(delivered))
       /\ pc = "done" => delivered = DeterminedSequence

\* C31 witness: process() on a pool of several workers has returned after
\* it delivered a record of each of two sources with equal receive_ts, the
\* one of the earlier path first
C31_Witness ==
    /\ pc = "done"
    /\ Len(workers) >= 2
    /\ Len(cursors) = 2
    /\ Len(delivered) >= 2
    /\ delivered[1].path = cursors[1].path
    /\ delivered[2].path = cursors[2].path
    /\ delivered[1].rec.receive_ts = delivered[2].rec.receive_ts

\* ------------------------------------------------------------------------
\* Exhaustion of a cursor (checked under SpecExhaust)
\* ------------------------------------------------------------------------

\* the calls of advance() on the cursor that returned false
EndCalls == {n \in 1..Len(seen) : ~seen[n].ok}

\* the cursor driven by the caller: after a call of advance() that returned
\* false every later call returned false and is_valid() is false; a cursor
\* on a file that cannot be opened, is empty or lacks a column is not
\* valid, whatever calls of advance() it has had
ExhaustedCursorStays ==
    cur.path = 1 =>
        /\ \A n \in EndCalls : \A m \in n..Len(seen) : ~seen[m].ok
        /\ EndCalls # {} => ~is_valid(cur)
        /\ ~ColumnValid(file) => (~is_valid(cur) /\ \A n \in 1..Len(seen) : ~seen[n].ok)

\* process(): a source that cannot be opened, is empty or lacks a column
\* has a cursor that is not valid, is not retained and delivers nothing
FailedSourceNeverValid ==
    /\ \A j \in 1..Len(futures) :
          (futures[j].ready /\ ~ColumnValid(entries[paths[j]])) =>
              ~is_valid(futures[j].value)
    /\ \A idx \in 1..Len(cursors) : ColumnValid(entries[cursors[idx].path])
    /\ \A k \in 1..Len(delivered) : ColumnValid(entries[delivered[k].path])

\* a step leaves a cursor that is not valid as it is: the caller's cursor
\* does not become valid, and in the merge loop an exhausted cursor is not
\* advanced, gets no heap entry and has no record delivered
ExhaustedStep ==
    /\ (cur.path = 1 /\ ~is_valid(cur)) => ~is_valid(cur')
    /\ pc = "merge" =>
          \A idx \in 1..Len(cursors) :
              ~is_valid(cursors[idx]) =>
                  /\ cursors'[idx] = cursors[idx]
                  /\ \A k \in 1..Len(heap') : heap'[k][2] # idx
                  /\ \A k \in (Len(delivered) + 1)..Len(delivered') :
                        delivered'[k].path # cursors[idx].path

\* C32: exhaustion is permanent, for the cursor a caller drives and for
\* the cursors of process(), and a cursor of a file that cannot be opened,
\* is empty or lacks a required column is never valid
C32_ExhaustionIsPermanent ==
    /\ [](ExhaustedCursorStays /\ FailedSourceNeverValid)
    /\ [][ExhaustedStep]_vars

\* C32 witness (the caller's cursor): a good line has been returned, and
\* then three calls of advance() have returned false
C32_Witness ==
    /\ cur.path = 1
    /\ Len(seen) = 4
    /\ seen[1].ok
    /\ EndCalls = {2, 3, 4}
    /\ ~is_valid(cur)

\* C32 in process(): the first cursor is exhausted after its one record
\* and the merge loop has gone on to deliver two records of the second
C32_MergeCase ==
    /\ pc = "done"
    /\ Len(cursors) = 2
    /\ Len(delivered) = 3
    /\ delivered[1].path = cursors[1].path
    /\ delivered[2].path = cursors[2].path
    /\ delivered[3].path = cursors[2].path

\* ------------------------------------------------------------------------
\* thread_pool liveness (checked under SpecPoolFair)
\* ------------------------------------------------------------------------

\* the future of job j is ready
FutureReady(j) == j <= Len(pfutures) /\ pfutures[j].state \in {"value", "exception"}

\* a step in which a worker leaves worker_loop() is taken with _stop set
\* and the queue empty
ExitOnlyWhenDrained ==
    \A w \in DOMAIN pool.workers :
        (pool.workers[w].state # "exited" /\ pool'.workers[w].state = "exited") =>
            (pool.stop /\ pool.tasks = <<>>)

\* C33: every task that submit() accepted is run in the end and its future
\* becomes ready, also when it was in the queue at the start of the
\* destructor; the destructor, once started, returns; a worker leaves its
\* loop only with _stop set and the queue empty; and when the destructor
\* has returned every worker has left its loop and every accepted task
\* has been run
C33_AcceptedTasksRun ==
    /\ \A j \in 1..MaxJobs : (j \in Accepted) ~> FutureReady(j)
    /\ (client.pc \in {"notify_all", "join"}) ~> (client.pc = "destroyed")
    /\ [][ExitOnlyWhenDrained]_vars
    /\ [](client.pc = "destroyed" =>
            /\ \A w \in DOMAIN pool.workers : pool.workers[w].state = "exited"
            /\ \A j \in Accepted : FutureReady(j))

\* C33 witness: the destructor of a pool of one worker has returned, every
\* job of the largest batch was accepted and its future is ready, and no
\* future has been read yet
C33_Witness ==
    /\ client.pc = "destroyed"
    /\ Len(pool.workers) = 1
    /\ Len(jobs) = MaxJobs
    /\ Accepted = 1..MaxJobs
    /\ \A j \in 1..MaxJobs : FutureReady(j)
    /\ \A j \in 1..MaxJobs : got[j].state = "pending"

====
